---- MODULE Spec2Model ----
(***************************************************************************)
(* CascLib TypeScript access layer: mask expansion, entry aggregation,     *)
(* path sanitisation and the list / extract command pipelines.             *)
(*                                                                         *)
(* Strings of the program are modelled as sequences of one-character       *)
(* strings, so that slicing, splitting and joining are computed as the     *)
(* code computes them.                                                     *)
(***************************************************************************)
EXTENDS Integers, Sequences, FiniteSets, TLC

VARIABLES
    pattern,        \* expandMaskPatterns: the mask given to the resolver
    expanded,       \* expandMaskPatterns: its result (sequence of masks)
    maskPc,         \* "off" | "input" | "expanded"
    entryPath,      \* sanitizeRelativePath: the archive entry path
    pathSep,        \* path.sep of the platform ("/" or "\\")
    relativePath,   \* sanitizeRelativePath: its result
    sanPc,          \* "off" | "input" | "sanitized"
    aggMask,        \* aggregation: options.mask
    aggLimit,       \* aggregation: options.limit (Infinity for "all")
    cursors,        \* native engine: active mask -> records its cursor yields
    aggResult,      \* aggregation: [thrown, entries, queries]
    aggPc,          \* "off" | "input" | "done"
    cmd,            \* "off" | "list" | "extract": the command that runs
    pc,             \* position of the command
    jsonOutput,     \* list: --json
    overwrite,      \* extract: --overwrite
    chunkSize,      \* extract: parsed --chunk-size
    storageAddress, \* the command's storageAddress (NullHandle = null)
    exitCode,       \* process.exitCode
    faulted,        \* a native gateway call has raised a fault
    enumFault,      \* the native find call that faults: [mask, at] (mask 0: none)
    entries,        \* the aggregated entries
    emitted,        \* list: a listing or tree was written
    trace,          \* handle lifecycle calls made so far: [op, arg]
    idx,            \* extractEntries: index of the entry in the for loop
    fileHandle,     \* extractEntries: fileHandle (NullHandle = null)
    fileSize,       \* extractEntries: fileSizeBig
    remaining,      \* extractEntries: remaining
    written,        \* bytes passed to writeSync for the current entry
    dest,           \* extractEntries: destinationRelative
    fd,             \* extractEntries: fileDescriptor is open
    outcome,        \* what happened to the current entry
    outcomes,       \* per finished entry: [path, kind]
    extractedCount, \* extractEntries: extractedCount
    fs,             \* files below the output directory: path -> [owner, len]
    existing,       \* the paths below the output directory that existed at the start
    treeEntries,    \* buildFileTreeFromEntries: the entry list
    tree,           \* buildFileTreeFromEntries: the tree it returns
    treePc,         \* "off" | "input" | "built"
    tagList,        \* parseStorageTags: the tags the engine wrote to its buffer
    tagBuffer,      \* parseStorageTags: the (truncated) buffer, a sequence of bytes
    tagResult,      \* parseStorageTags: [fault, tags]
    tagPc,          \* "off" | "input" | "parsed"
    findLimit,      \* CascLib.listStorageFiles: options.limit (Infinity: absent)
    findRecords,    \* native engine: the records the find cursor yields
    findPc,         \* "off" | "start" | "iterate" | "close" | "returned" | "thrown"
    findHandle,     \* CascLib.listStorageFiles: findHandle
    findPos,        \* native engine: the record the cursor stands on
    findEntries,    \* CascLib.listStorageFiles: entries
    iterationFailed,\* CascLib.listStorageFiles: iterationFailed
    findThrown,     \* the native call whose fault is being thrown ("none")
    closeFailed,    \* CascFindClose has reported failure
    nativeCalls,    \* the native find calls made so far
    cascError,      \* native engine: the process-wide last-error register
    engineLog,      \* the native interactions of the running gateway operation
    staleError,     \* the register as earlier operations left it
    gateOp,         \* the gateway operation that ran last ("none")
    gateThrown,     \* the native call named by the fault it raised ("none")
    gateValue,      \* the value it returned (handle, size, byte count)
    gateInfo,       \* sizes passed to and reported by the engine:
                    \* [required, filled, passed, written, decoded]
    chunkValue,     \* the --chunk-size option as given: [kind, n]
    chunkLeft,      \* the bytes of the file still to read
    chunkParsed,    \* parseChunkSize(chunkValue)
    chunkToRead,    \* the bytes requested in the read
    chunkPc,
    productBuffer,  \* the effective buffer of a product-info query
    productInfo,    \* the decoded value: [codeName, buildNumber]
    productPc

maskVars == <<pattern, expanded, maskPc>>
sanVars == <<entryPath, pathSep, relativePath, sanPc>>
aggVars == <<aggMask, aggLimit, cursors, aggResult, aggPc>>
optVars == <<cmd, jsonOutput, overwrite, chunkSize, existing>>
entryVars == <<idx, fileHandle, fileSize, remaining, written, dest, fd, outcome,
               outcomes, extractedCount, fs>>
treeVars == <<treeEntries, tree, treePc>>
tagVars == <<tagList, tagBuffer, tagResult, tagPc>>
findVars == <<findLimit, findRecords, findPc, findHandle, findPos, findEntries,
              iterationFailed, findThrown, closeFailed, nativeCalls, cascError,
              engineLog, staleError>>
findCoreVars == <<findLimit, findRecords, findPc, findHandle, findPos, findEntries,
                  iterationFailed, findThrown, closeFailed, nativeCalls, staleError>>
gateVars == <<gateOp, gateThrown, gateValue, gateInfo>>
cmdVars == <<optVars, pc, storageAddress, exitCode, faulted, enumFault, entries,
             emitted, trace, entryVars>>

chunkVars == <<chunkValue, chunkLeft, chunkParsed, chunkToRead, chunkPc>>
productVars == <<productBuffer, productInfo, productPc>>
vars == <<maskVars, sanVars, aggVars, cmdVars, treeVars, tagVars, findVars, gateVars,
         chunkVars, productVars>>

(***************************************************************************)
(* Bounds of the model                                                     *)
(***************************************************************************)
MaxMaskLen == 5
MaxPathLen == 4
MaxCursor == 2
MaxLimit == 3
MaxChunk == 2
MaxEntries == 3
MaxTags == 2
MaxInfoSize == 2

(***************************************************************************)
(* String helpers (JavaScript String methods, 1-based here)                *)
(***************************************************************************)
Min(a, b) == IF a < b THEN a ELSE b
Max(a, b) == IF a > b THEN a ELSE b

\* String.prototype.slice(from, to) with 0-based from/to given as the
\* 1-based inclusive range lo..hi
Slice(s, lo, hi) == IF lo > hi THEN <<>> ELSE SubSeq(s, lo, hi)

\* String.prototype.indexOf(ch): 1-based position of the first ch, 0 if none
IndexOfChar(s, ch) ==
    IF \E i \in 1..Len(s) : s[i] = ch
    THEN CHOOSE i \in 1..Len(s) : s[i] = ch /\ \A j \in 1..(i - 1) : s[j] # ch
    ELSE 0

\* All strings over alphabet of length 0..n
RECURSIVE StringsUpTo(_, _)
StringsUpTo(alphabet, n) ==
    IF n = 0 THEN { <<>> }
    ELSE LET shorter == StringsUpTo(alphabet, n - 1)
         IN  shorter \cup { Append(s, c) : s \in { t \in shorter : Len(t) = n - 1 }, c \in alphabet }

\* Set<string> insertion order: append x unless already present
SetAdd(results, x) ==
    IF \E i \in 1..Len(results) : results[i] = x THEN results ELSE Append(results, x)

RECURSIVE SetAddAll(_, _)
SetAddAll(results, xs) ==
    IF xs = <<>> THEN results
    ELSE SetAddAll(SetAdd(results, Head(xs)), Tail(xs))

StartsWith(s, prefix) ==
    Len(s) >= Len(prefix) /\ SubSeq(s, 1, Len(prefix)) = prefix

EndsWith(s, suffix) ==
    Len(s) >= Len(suffix) /\ SubSeq(s, Len(s) - Len(suffix) + 1, Len(s)) = suffix

\* s.replace(/c/g, to) for the characters c of from
ReplaceChars(s, from, to) ==
    [i \in 1..Len(s) |-> IF s[i] \in from THEN to ELSE s[i]]

\* s.replace(/[c]+/g, to): every maximal run of characters of from becomes one to
RECURSIVE ReplaceRuns(_, _, _)
ReplaceRuns(s, from, to) ==
    IF s = <<>> THEN <<>>
    ELSE IF Head(s) \in from
         THEN IF Len(s) > 1 /\ s[2] \in from
              THEN ReplaceRuns(Tail(s), from, to)
              ELSE <<to>> \o ReplaceRuns(Tail(s), from, to)
         ELSE <<Head(s)>> \o ReplaceRuns(Tail(s), from, to)

\* removal of the leading and of the trailing characters of chars
RECURSIVE StripLeading(_, _)
StripLeading(s, chars) ==
    IF s # <<>> /\ Head(s) \in chars THEN StripLeading(Tail(s), chars) ELSE s

RECURSIVE StripTrailing(_, _)
StripTrailing(s, chars) ==
    IF s # <<>> /\ s[Len(s)] \in chars
    THEN StripTrailing(SubSeq(s, 1, Len(s) - 1), chars) ELSE s

\* String.prototype.trim (the whitespace of the model is the blank)
Trim(s) == StripTrailing(StripLeading(s, {" "}), {" "})

\* String.prototype.split(ch) for the separator characters seps
RECURSIVE SplitOn(_, _, _, _)
SplitOn(s, seps, index, current) ==
    IF index > Len(s) THEN << current >>
    ELSE IF s[index] \in seps
         THEN << current >> \o SplitOn(s, seps, index + 1, <<>>)
         ELSE SplitOn(s, seps, index + 1, Append(current, s[index]))

Split(s, seps) == SplitOn(s, seps, 1, <<>>)

\* Array.prototype.join(sep)
RECURSIVE Join(_, _)
Join(segments, sep) ==
    IF segments = <<>> THEN <<>>
    ELSE IF Len(segments) = 1 THEN segments[1]
    ELSE segments[1] \o <<sep>> \o Join(Tail(segments), sep)


NoDuplicates(xs) == \A i, j \in 1..Len(xs) : xs[i] = xs[j] => i = j

(***************************************************************************)
(* Mask Resolver: splitBraceAlternatives, expandMaskPatterns               *)
(***************************************************************************)
\* the for loop of splitBraceAlternatives, from position index on
RECURSIVE SplitLoop(_, _, _, _, _)
SplitLoop(segment, index, parts, current, depth) ==
    IF index > Len(segment) THEN Append(parts, current)
    ELSE LET char == segment[index] IN
         IF char = "," /\ depth = 0
         THEN SplitLoop(segment, index + 1, Append(parts, current), <<>>, depth)
         ELSE LET d == IF char = "{" THEN depth + 1
                       ELSE IF char = "}" THEN Max(0, depth - 1)
                       ELSE depth
              IN  SplitLoop(segment, index + 1, parts, Append(current, char), d)

\* a faulty variant: the depth is not tracked, every comma is a split point
SplitBraceAlternativesEveryComma(segment) ==
    LET RECURSIVE Loop(_, _, _)
        Loop(index, parts, current) ==
            IF index > Len(segment) THEN Append(parts, current)
            ELSE IF segment[index] = ","
                 THEN Loop(index + 1, Append(parts, current), <<>>)
                 ELSE Loop(index + 1, parts, Append(current, segment[index]))
    IN  Loop(1, <<>>, <<>>)

splitBraceAlternatives(segment) == SplitLoop(segment, 1, <<>>, <<>>, 0)

\* the scan for the closing brace of the group opened before index:
\* its 1-based position, 0 when the end of the string is reached first
RECURSIVE FindGroupEnd(_, _, _)
FindGroupEnd(pat, index, depth) ==
    IF index > Len(pat) THEN 0
    ELSE IF pat[index] = "{" THEN FindGroupEnd(pat, index + 1, depth + 1)
    ELSE IF pat[index] = "}"
         THEN IF depth = 0 THEN index ELSE FindGroupEnd(pat, index + 1, depth - 1)
    ELSE FindGroupEnd(pat, index + 1, depth)

RECURSIVE expandMaskPatterns(_)
\* alternatives.forEach(option => expand(prefix+option+suffix).forEach(add))
RECURSIVE ExpandAlternatives(_, _, _, _)
ExpandAlternatives(prefix, alternatives, suffix, results) ==
    IF alternatives = <<>> THEN results
    ELSE ExpandAlternatives(prefix, Tail(alternatives), suffix,
            SetAddAll(results, expandMaskPatterns(prefix \o Head(alternatives) \o suffix)))

expandMaskPatterns(pat) ==
    LET start == IndexOfChar(pat, "{") IN
    IF start = 0 THEN << pat >>
    ELSE LET end == FindGroupEnd(pat, start + 1, 0) IN
         IF end = 0 THEN << pat >>
         ELSE ExpandAlternatives(Slice(pat, 1, start - 1),
                                 splitBraceAlternatives(Slice(pat, start + 1, end - 1)),
                                 Slice(pat, end + 1, Len(pat)),
                                 <<>>)


(***************************************************************************)
(* Path handling: normalizeStorageEntryPath, sanitizeRelativePath, and     *)
(* path.resolve of the result against the output directory                 *)
(***************************************************************************)
VfsRoot == << "v", "f", "s", "-", "r", "o", "o", "t" >>
ParentPlaceholder == << "p", "a", "r", "e", "n", "t" >>
FallbackName == << "e", "x", "t", "r", "a", "c", "t", "e", "d", ".", "b", "i", "n" >>
ReservedChars == { "<", ">", ":", "\"", "|", "?", "*" }

normalizeStorageEntryPath(entry) ==
    LET slashNormalized == ReplaceRuns(entry, {"\\"}, "/")
        trimmed == StripTrailing(StripLeading(slashNormalized, {"/"}), {"/"})
    IN  IF StartsWith(trimmed, VfsRoot \o <<"/">>)
        THEN SubSeq(trimmed, Len(VfsRoot) + 2, Len(trimmed))
        ELSE IF trimmed = VfsRoot THEN <<>>
        ELSE trimmed

KeepSegment(segment) == Len(segment) > 0 /\ segment # << "." >>

\* .filter(segment => segment.length > 0 && segment !== '.')
RECURSIVE FilterSegments(_)
FilterSegments(xs) ==
    IF xs = <<>> THEN <<>>
    ELSE IF KeepSegment(Head(xs)) THEN <<Head(xs)>> \o FilterSegments(Tail(xs))
    ELSE FilterSegments(Tail(xs))

\* a faulty variant: `..` segments are kept instead of being rewritten to `parent`
SafeSegmentKeepDotDot(segment) == ReplaceChars(segment, ReservedChars, "_")

\* the two maps that turn a kept segment into a safe one
SafeSegment(segment) ==
    ReplaceChars(IF segment = << ".", "." >> THEN ParentPlaceholder ELSE segment,
                 ReservedChars, "_")

sanitizeRelativePath(entry, sep) ==
    LET norm == normalizeStorageEntryPath(entry)
        normalized == IF norm # <<>> THEN norm ELSE entry
        replaced == ReplaceRuns(ReplaceChars(normalized, {":"}, "/"), {"\\"}, "/")
        split == Split(replaced, {"/"})
        segments == FilterSegments([i \in 1..Len(split) |-> Trim(split[i])])
        safeSegments == [i \in 1..Len(segments) |-> SafeSegment(segments[i])]
        relPath == Join(safeSegments, sep)
    IN  IF Len(relPath) > 0 THEN relPath ELSE FallbackName

\* the separators path.resolve recognises on the platform whose path.sep is sep
PlatformSeparators(sep) == IF sep = "\\" THEN { "/", "\\" } ELSE { "/" }

\* path.resolve(dir, rel) as the list of segments below the root: an absolute
\* rel replaces dir; empty and `.` segments are dropped, `..` walks upward
RECURSIVE ResolveWalk(_, _)
ResolveWalk(stack, segments) ==
    IF segments = <<>> THEN stack
    ELSE LET seg == Head(segments) IN
         IF seg = <<>> \/ seg = << "." >> THEN ResolveWalk(stack, Tail(segments))
         ELSE IF seg = << ".", "." >>
              THEN ResolveWalk(IF stack = <<>> THEN stack
                               ELSE SubSeq(stack, 1, Len(stack) - 1), Tail(segments))
         ELSE ResolveWalk(Append(stack, seg), Tail(segments))

PathResolve(dirSegments, rel, sep) ==
    LET seps == PlatformSeparators(sep)
        absolute == rel # <<>> /\ rel[1] \in seps
    IN  ResolveWalk(IF absolute THEN <<>> ELSE dirSegments, Split(rel, seps))

(***************************************************************************)
(* Specification of path sanitisation: the entry path is drawn from all    *)
(* strings of bounded length over . / \ : blank a *, plus longer examples. *)
(***************************************************************************)
PathAlphabet == { ".", "/", "\\", ":", " ", "a", "*" }

TraversalExample ==
    << ".", ".", "/", ".", ".", "/", "e", "t", "c", "/", "p", "a", "s", "s", "w", "d" >>

PathExamples ==
    { TraversalExample,
      VfsRoot,
      VfsRoot \o << "/" >>,
      VfsRoot \o << "/", ".", ".", "/", "a" >>,
      VfsRoot \o << "\\", ".", ".", "\\", ".", "." >>,
      << "/" >> \o VfsRoot \o << "/", ":", "." >> }

PathInputs == StringsUpTo(PathAlphabet, MaxPathLen) \cup PathExamples

\* the configured output directory, as segments below the root
OutputDir == << << "o", "u", "t" >>, << "x" >> >>

SanIdle == entryPath = <<>> /\ pathSep = "/" /\ relativePath = <<>> /\ sanPc = "off"

SanInit ==
    /\ entryPath \in PathInputs
    /\ pathSep \in { "/", "\\" }
    /\ relativePath = <<>>
    /\ sanPc = "input"

Sanitize ==
    /\ sanPc = "input"
    /\ relativePath' = sanitizeRelativePath(entryPath, pathSep)
    /\ sanPc' = "sanitized"
    /\ UNCHANGED <<entryPath, pathSep>>


(***************************************************************************)
(* Tree Builder: CascLib.buildFileTreeFromEntries.  The TreeNode objects   *)
(* under construction are kept in an arena: node 1 is the root, parent is  *)
(* the arena index of the node whose children array holds the node (0 for  *)
(* the root), and the children array of a node is its arena nodes in       *)
(* arena order.  size is 0 for a directory (the code leaves it undefined). *)
(***************************************************************************)
RootNode ==
    [parent |-> 0, name |-> <<>>, type |-> "directory", fullPath |-> <<>>, size |-> 0]

\* parent.childMap.get(name): the node last set for name, 0 when there is none
\* (every push onto parent.children is followed by childMap.set(name, node))
ChildMapGet(nodes, parent, name) ==
    LET bound == { i \in 1..Len(nodes) :
                      nodes[i].parent = parent /\ nodes[i].name = name }
    IN  IF bound = {} THEN 0 ELSE CHOOSE i \in bound : \A j \in bound : j <= i

ensureDirectory(nodes, parent, name, fullPath) ==
    LET known == ChildMapGet(nodes, parent, name) IN
    IF known # 0 /\ nodes[known].type = "directory"
    THEN [nodes |-> nodes, node |-> known]
    ELSE [nodes |-> Append(nodes, [parent |-> parent, name |-> name,
                                   type |-> "directory", fullPath |-> fullPath,
                                   size |-> 0]),
          node |-> Len(nodes) + 1]

addFile(nodes, parent, name, fullPath, size) ==
    IF ChildMapGet(nodes, parent, name) # 0 THEN nodes
    ELSE Append(nodes, [parent |-> parent, name |-> name, type |-> "file",
                        fullPath |-> fullPath, size |-> size])

\* null is modelled as the empty string: both are skipped by !normalizedPath
normalizePathEntry(entry) ==
    LET trimmed == Trim(entry)
        colonNormalized == ReplaceChars(trimmed, {":"}, "/")
        slashNormalized == ReplaceRuns(colonNormalized, {"\\", "/"}, "/")
        sanitized == StripTrailing(StripLeading(slashNormalized, {"/"}), {"/"})
    IN  IF Len(trimmed) = 0 THEN <<>>
        ELSE IF trimmed = VfsRoot THEN <<>>
        ELSE IF EndsWith(trimmed, <<":">>) THEN <<>>
        ELSE IF Len(sanitized) = 0 THEN <<>>
        ELSE IF StartsWith(sanitized, VfsRoot) THEN sanitized
        ELSE VfsRoot \o <<"/">> \o sanitized

\* .filter(segment => segment.length > 0)
NonEmptySegments(xs) == SelectSeq(xs, LAMBDA segment : Len(segment) > 0)

\* the loop over the segments of one entry, from position index on
RECURSIVE InsertSegments(_, _, _, _, _, _)
InsertSegments(nodes, segments, index, current, currentPath, size) ==
    IF index > Len(segments) THEN nodes
    ELSE LET segment == segments[index]
             path == IF Len(currentPath) = 0 THEN segment
                     ELSE currentPath \o <<"/">> \o segment
         IN  IF index = Len(segments)
             THEN addFile(nodes, current, segment, path, size)
             ELSE LET dir == ensureDirectory(nodes, current, segment, path)
                  IN  InsertSegments(dir.nodes, segments, index + 1, dir.node, path, size)

\* for (const entry of entries)
RECURSIVE InsertEntries(_, _)
InsertEntries(nodes, list) ==
    IF list = <<>> THEN nodes
    ELSE LET normalizedPath == normalizePathEntry(Head(list).path)
             segments == NonEmptySegments(Split(normalizedPath, {"/"}))
         IN  IF normalizedPath = <<>> \/ segments = <<>>
             THEN InsertEntries(nodes, Tail(list))
             ELSE InsertEntries(InsertSegments(nodes, segments, 1, 1, <<>>, Head(list).size),
                                Tail(list))

\* the collation order of the characters that occur in names of the model
\* (blank, hyphen, lower-case letters: locale and code-unit order agree)
CollationOrder == << " ", "-", "a", "b", "f", "o", "r", "s", "t", "v" >>
CollationRank(char) == IndexOfChar(CollationOrder, char)

\* a.localeCompare(b) as a negative, zero or positive number
RECURSIVE localeCompare(_, _)
localeCompare(a, b) ==
    IF a = <<>> /\ b = <<>> THEN 0
    ELSE IF a = <<>> THEN -1
    ELSE IF b = <<>> THEN 1
    ELSE IF CollationRank(Head(a)) < CollationRank(Head(b)) THEN -1
    ELSE IF CollationRank(Head(a)) > CollationRank(Head(b)) THEN 1
    ELSE localeCompare(Tail(a), Tail(b))

\* a faulty variant: the node type is not compared
CompareNodesByNameOnly(a, b) == localeCompare(a.name, b.name)

\* the comparator given to convertedChildren.sort
CompareNodes(a, b) ==
    IF a.type # b.type
    THEN IF a.type = "directory" THEN -1 ELSE 1
    ELSE localeCompare(a.name, b.name)

\* Array.prototype.sort is stable: x goes behind every element that does
\* not compare greater than it
RECURSIVE InsertSorted(_, _)
InsertSorted(sorted, x) ==
    IF sorted = <<>> THEN << x >>
    ELSE IF CompareNodes(Head(sorted), x) > 0 THEN << x >> \o sorted
    ELSE << Head(sorted) >> \o InsertSorted(Tail(sorted), x)

RECURSIVE SortNodes(_, _)
SortNodes(sorted, xs) ==
    IF xs = <<>> THEN sorted
    ELSE SortNodes(InsertSorted(sorted, Head(xs)), Tail(xs))

\* node.children: the arena indices of the children of node id, in push order
ChildrenOf(nodes, id) ==
    SelectSeq([i \in 1..Len(nodes) |-> i], LAMBDA i : nodes[i].parent = id)

\* absent children (undefined) are the empty sequence
RECURSIVE convertNode(_, _)
convertNode(nodes, id) ==
    LET node == nodes[id]
        childIds == ChildrenOf(nodes, id)
        convertedChildren == [k \in 1..Len(childIds) |-> convertNode(nodes, childIds[k])]
    IN  [name |-> node.name, type |-> node.type, fullPath |-> node.fullPath,
         size |-> node.size,
         children |-> IF node.type = "directory"
                      THEN SortNodes(<<>>, convertedChildren) ELSE <<>>]

\* a faulty variant: the prefix is left on the path
RebasedPathKept(fullPath, prefix) == fullPath

\* the new fullPath rebaseFullPath assigns to a node
RebasedPath(fullPath, prefix) ==
    IF fullPath = prefix THEN <<>>
    ELSE IF StartsWith(fullPath, prefix \o <<"/">>)
         THEN SubSeq(fullPath, Len(prefix) + 2, Len(fullPath))
         ELSE fullPath

RECURSIVE rebaseFullPath(_, _)
rebaseFullPath(node, prefix) ==
    [name |-> node.name, type |-> node.type,
     fullPath |-> RebasedPath(node.fullPath, prefix),
     size |-> node.size,
     children |-> [k \in 1..Len(node.children) |->
                      rebaseFullPath(node.children[k], prefix)]]

IsVfsRoot(node) == node.name = VfsRoot /\ node.type = "directory"

buildFileTreeFromEntries(list) ==
    LET converted == convertNode(InsertEntries(<< RootNode >>, list), 1)
        found == { k \in 1..Len(converted.children) : IsVfsRoot(converted.children[k]) }
    IN  IF found # {}
        THEN rebaseFullPath(converted.children[CHOOSE k \in found : \A j \in found : k <= j],
                            VfsRoot)
        ELSE converted

(***************************************************************************)
(* Specification of the tree builder: the entry list is every sequence of  *)
(* up to MaxEntries entries over the paths below; the size of an entry is  *)
(* its position in the list, which tells entries of one path apart.        *)
(***************************************************************************)
TreePaths ==
    { <<>>,
      << " " >>,
      << "a" >>,
      << "b" >>,
      << " ", "b" >>,
      << "a", "/", "b" >>,
      << "a", ":", "b" >>,
      << "a", "\\", "a" >>,
      << "/", "b", "/", "/", "a", "/" >>,
      << "a", ":" >>,
      VfsRoot,
      VfsRoot \o << "/" >>,
      VfsRoot \o << "/", "a" >>,
      VfsRoot \o << "a", "/", "b" >> }

EntryLists ==
    UNION { { [i \in 1..n |-> [path |-> paths[i], size |-> i]] :
                paths \in [1..n -> TreePaths] } : n \in 0..MaxEntries }

EmptyTree ==
    [name |-> <<>>, type |-> "directory", fullPath |-> <<>>, size |-> 0,
     children |-> <<>>]

TreeIdle == treeEntries = <<>> /\ tree = EmptyTree /\ treePc = "off"

TreeInit ==
    /\ treeEntries \in EntryLists
    /\ tree = EmptyTree
    /\ treePc = "input"

BuildTree ==
    /\ treePc = "input"
    /\ tree' = buildFileTreeFromEntries(treeEntries)
    /\ treePc' = "built"
    /\ UNCHANGED treeEntries


(***************************************************************************)
(* Storage-info codec: parseStorageTags.  A Buffer is a sequence of bytes  *)
(* addressed from offset 0.  A read outside the buffer (which Buffer's     *)
(* readUInt methods answer by throwing) sets fault in the result.          *)
(***************************************************************************)
POINTER_SIZE == 8
TagHeaderSize == 16
TagEntrySize == POINTER_SIZE + 4 + 4

NUL == "NUL"

\* the characters of the model and their UTF-8 bytes
ByteOfChar(char) == IF char = "a" THEN 97 ELSE IF char = "b" THEN 98 ELSE 0
CharOfByte(byte) == IF byte = 97 THEN "a" ELSE IF byte = 98 THEN "b" ELSE NUL

InBuffer(buffer, offset, width) == offset >= 0 /\ offset + width <= Len(buffer)

\* buffer.readUInt32LE(offset) / readBigUInt64LE(offset), for a read in range
RECURSIVE ReadUIntLE(_, _, _)
ReadUIntLE(buffer, offset, width) ==
    IF width = 0 THEN 0
    ELSE buffer[offset + 1] + 256 * ReadUIntLE(buffer, offset + 1, width - 1)

\* buffer.toString('utf8', start, end): start and end are clamped to the buffer
BufferToString(buffer, start, end) ==
    LET to == Min(end, Len(buffer)) IN
    IF start >= to THEN <<>>
    ELSE [k \in 1..(to - start) |-> CharOfByte(buffer[start + k])]

\* a faulty variant: the end of the name is not compared with the buffer
NameNeverOutOfRange(nameEnd, length) == FALSE

\* if (nameEnd > buffer.length) break
NameOutOfRange(nameEnd, length) == nameEnd > length

\* if (entryStart + POINTER_SIZE + 8 > buffer.length) break
EntryOutOfRange(entryStart, length) == entryStart + POINTER_SIZE + 8 > length

\* the for loop of parseStorageTags from tag i (0-based) on
RECURSIVE TagLoop(_, _, _, _, _)
TagLoop(buffer, tagCount, i, nameOffset, tags) ==
    IF ~ (i < tagCount) THEN [fault |-> FALSE, tags |-> tags]
    ELSE LET entryStart == TagHeaderSize + i * TagEntrySize IN
         IF EntryOutOfRange(entryStart, Len(buffer))
         THEN [fault |-> FALSE, tags |-> tags]
         ELSE IF ~ InBuffer(buffer, entryStart + POINTER_SIZE, 8)
              THEN [fault |-> TRUE, tags |-> tags]
         ELSE LET nameLength == ReadUIntLE(buffer, entryStart + POINTER_SIZE, 4)
                  tagValue == ReadUIntLE(buffer, entryStart + POINTER_SIZE + 4, 4)
                  nameEnd == nameOffset + nameLength
              IN  IF NameOutOfRange(nameEnd, Len(buffer))
                  THEN [fault |-> FALSE, tags |-> tags]
                  ELSE IF ~ InBuffer(buffer, nameOffset, nameLength)
                       THEN [fault |-> TRUE, tags |-> tags]
                  ELSE TagLoop(buffer, tagCount, i + 1, nameEnd + 1,
                               Append(tags,
                                      [name |-> StripTrailing(
                                                   BufferToString(buffer, nameOffset, nameEnd),
                                                   { NUL }),
                                       length |-> nameLength,
                                       value |-> tagValue]))

parseStorageTags(buffer) ==
    IF Len(buffer) < TagHeaderSize THEN [fault |-> FALSE, tags |-> <<>>]
    ELSE LET tagCount == ReadUIntLE(buffer, 0, 8)
         IN  TagLoop(buffer, tagCount, 0, TagHeaderSize + tagCount * TagEntrySize, <<>>)

(***************************************************************************)
(* Specification of the tag codec: the engine writes up to MaxTags tags    *)
(* (count and reserved word, one entry per tag, the names each followed by *)
(* a zero byte); the buffer handed to parseStorageTags is any prefix of    *)
(* these bytes.                                                            *)
(***************************************************************************)
RECURSIVE BytesLE(_, _)
BytesLE(n, width) ==
    IF width = 0 THEN <<>> ELSE << n % 256 >> \o BytesLE(n \div 256, width - 1)

RECURSIVE ConcatAll(_)
ConcatAll(seqs) == IF seqs = <<>> THEN <<>> ELSE Head(seqs) \o ConcatAll(Tail(seqs))

TagNames == { <<>>, << "a" >>, << "a", "b" >> }

\* the value of the tag at position i: larger than one byte
TagValueAt(i) == 256 + i

TagLists ==
    UNION { { [i \in 1..n |-> [name |-> names[i], value |-> TagValueAt(i)]] :
                names \in [1..n -> TagNames] } : n \in 0..MaxTags }

EncodeTags(list) ==
    BytesLE(Len(list), 8) \o BytesLE(0, 8)
    \o ConcatAll([i \in 1..Len(list) |->
                    BytesLE(0, POINTER_SIZE) \o BytesLE(Len(list[i].name), 4)
                    \o BytesLE(list[i].value, 4)])
    \o ConcatAll([i \in 1..Len(list) |->
                    [k \in 1..Len(list[i].name) |-> ByteOfChar(list[i].name[k])] \o << 0 >>])

NoTags == [fault |-> FALSE, tags |-> <<>>]

\* the product info layout: the code name field and the whole structure
ProductNameSize == 28
ProductInfoSize == 32

\* effectiveBuffer.indexOf(0)
IndexOfZero(buffer) ==
    LET zeros == { i \in 1..Len(buffer) : buffer[i] = 0 } IN
    IF zeros = {} THEN -1 ELSE (CHOOSE i \in zeros : \A j \in zeros : i <= j) - 1

\* case CascStorageInfoClass.Product
DecodeProduct(buffer) ==
    LET zeroIndex == IndexOfZero(buffer)
        codeNameEnd == IF zeroIndex >= 0 THEN zeroIndex ELSE ProductNameSize
    IN  [codeName |-> BufferToString(buffer, 0, codeNameEnd),
         buildNumber |-> IF Len(buffer) >= ProductInfoSize
                         THEN ReadUIntLE(buffer, ProductNameSize, 4)
                         ELSE 0]

\* product-info buffers: a code name of letters a, NUL padding up to the
\* end of the name field, a build number, cut or padded to some length
ProductNameLengths == { 0, 1, 2, ProductNameSize - 1, ProductNameSize }
ProductBuilds == { 0, 97, 24929, 1633771873 }
ProductLengths ==
    { 0, 1, 3, ProductNameSize, ProductInfoSize - 1, ProductInfoSize, ProductInfoSize + 1 }
ProductBytes(nameLength, build) ==
    [i \in 1..ProductNameSize |-> IF i <= nameLength THEN 97 ELSE 0]
    \o BytesLE(build, 4) \o << 0 >>
ProductBuffers ==
    { SubSeq(ProductBytes(n, b), 1, len) :
         n \in ProductNameLengths, b \in ProductBuilds, len \in ProductLengths }

NoProduct == [codeName |-> <<>>, buildNumber |-> 0]

ProductIdle == productBuffer = <<>> /\ productInfo = NoProduct /\ productPc = "off"

ProductInit ==
    /\ productBuffer \in ProductBuffers
    /\ productInfo = NoProduct
    /\ productPc = "input"

DecodeProductInfo ==
    /\ productPc = "input"
    /\ productInfo' = DecodeProduct(productBuffer)
    /\ productPc' = "decoded"
    /\ UNCHANGED productBuffer

TagIdle == tagList = <<>> /\ tagBuffer = <<>> /\ tagResult = NoTags /\ tagPc = "off"

TagInit ==
    /\ tagList \in TagLists
    /\ tagBuffer \in { SubSeq(EncodeTags(tagList), 1, n) : n \in 0..Len(EncodeTags(tagList)) }
    /\ tagResult = NoTags
    /\ tagPc = "input"

ParseTags ==
    /\ tagPc = "input"
    /\ tagResult' = parseStorageTags(tagBuffer)
    /\ tagPc' = "parsed"
    /\ UNCHANGED <<tagList, tagBuffer>>

(***************************************************************************)
(* Native Handle Gateway: CascLib.listStorageFiles over one cursor         *)
(***************************************************************************)
\* Number.POSITIVE_INFINITY (parseLimit of "all"; an absent options.limit)
Infinity == -1
IsFinite(n) == n # Infinity

\* a faulty variant: every record is pushed, named or not
PushCurrentEntryAlways(found, record) == Append(found, record)

\* pushCurrentEntry: a record with an empty name is not pushed
PushCurrentEntry(found, record) ==
    IF Len(record.path) = 0 THEN found ELSE Append(found, record)

\* while (found.length < maxCount) { find-next; push }, the cursor standing
\* on record pos; failAt is the native find call that reports a fault
\* (1 = find-first, k = the (k-1)th find-next, 0 = none)
RECURSIVE FindNextLoop(_, _, _, _, _)
FindNextLoop(records, pos, found, maxCount, failAt) ==
    IF IsFinite(maxCount) /\ Len(found) >= maxCount
    THEN [thrown |-> FALSE, entries |-> found]
    ELSE IF failAt = pos + 1 THEN [thrown |-> TRUE, entries |-> <<>>]
    ELSE IF pos + 1 > Len(records) THEN [thrown |-> FALSE, entries |-> found]
    ELSE FindNextLoop(records, pos + 1, PushCurrentEntry(found, records[pos + 1]),
                      maxCount, failAt)

\* a faulty variant: options.limit is ignored, the cursor is always drained
ListStorageFilesUnlimited(records, limit, failAt) ==
    IF IsFinite(limit) /\ limit = 0 THEN [thrown |-> FALSE, entries |-> <<>>]
    ELSE IF failAt = 1 THEN [thrown |-> TRUE, entries |-> <<>>]
    ELSE IF records = <<>> THEN [thrown |-> FALSE, entries |-> <<>>]
    ELSE FindNextLoop(records, 1, PushCurrentEntry(<<>>, records[1]), Infinity, failAt)

listStorageFiles(records, limit, failAt) ==
    LET maxCount == IF IsFinite(limit) THEN Max(0, limit) ELSE Infinity IN
    IF IsFinite(maxCount) /\ maxCount = 0 THEN [thrown |-> FALSE, entries |-> <<>>]
    ELSE IF failAt = 1 THEN [thrown |-> TRUE, entries |-> <<>>]
    ELSE IF records = <<>> THEN [thrown |-> FALSE, entries |-> <<>>]
    ELSE FindNextLoop(records, 1, PushCurrentEntry(<<>>, records[1]), maxCount, failAt)

(***************************************************************************)
(* CascLib.listStorageFiles step by step, with the native calls it makes:  *)
(* CascFindFirstFile, CascFindNextFile, CascFindClose.  A native call that *)
(* fails leaves an error code for getLastError.                            *)
(***************************************************************************)
ERROR_NO_MORE_FILES == 1001
ERROR_NO_MORE_FILES_WIN32 == 18
ERROR_FILE_NOT_FOUND == 2
ERROR_PATH_NOT_FOUND == 3
ERROR_HANDLE_EOF == 38
NoError == 0

\* -1n and INVALID_HANDLE_VALUE (all 64 bits set)
AllOnesHandle == -1
\* the handle of a cursor the engine opened
CursorHandle == 2

isInvalidHandle(handle) == handle = 0 \/ handle = AllOnesHandle

\* the codes that end the enumeration without a fault
EndOfFilesCodes ==
    { ERROR_NO_MORE_FILES, ERROR_NO_MORE_FILES_WIN32, ERROR_FILE_NOT_FOUND,
      ERROR_PATH_NOT_FOUND }

\* the codes getLastError returns in the model
ErrorCodes == EndOfFilesCodes \cup { NoError, ERROR_HANDLE_EOF }

MaxCount(limit) == IF IsFinite(limit) THEN Max(0, limit) ELSE Infinity

\* a faulty variant: a failed CascFindClose is always thrown
CloseFaultAlwaysRaised(closed, failed) == ~ closed

\* if (!closed && !iterationFailed) throw
CloseFaultRaised(closed, failed) == ~ closed /\ ~ failed

\* one native interaction: the call, whether it reported success, whether
\* it wrote the last-error register, and the register after it (for
\* GetCascError: the code it returned)
EngineEvent(call, ok, set, code) == [call |-> call, ok |-> ok, set |-> set, code |-> code]

\* a failing engine call writes one of its codes to the register or leaves
\* the register as it is: [set, code]
FailureEffects(register) ==
    { [set |-> TRUE, code |-> c] : c \in ErrorCodes } \cup { [set |-> FALSE, code |-> register] }

\* a faulty variant: the register is not cleared before find-first
ResetErrorSkipped(register) == register

\* this.native.SetCascError([0]): the register after the call
ResetError(register) == 0

\* this.getLastError(): the code GetCascError returns
getLastError(register) == register

\* a faulty variant: find-first treats code 0 as a fault
FindFirstNoMatchStrict(errorCode) == errorCode \in EndOfFilesCodes

\* the codes for which an invalid find-first cursor means zero matches
FindFirstNoMatch(errorCode) == errorCode \in EndOfFilesCodes \/ errorCode = NoError

\* the codes for which a failed find-next ends the iteration (break)
FindNextEnds(errorCode) == errorCode \in EndOfFilesCodes

FindFirst ==
    /\ findPc = "start"
    /\ IF IsFinite(MaxCount(findLimit)) /\ MaxCount(findLimit) = 0
       THEN /\ findPc' = "returned"
            /\ engineLog' = <<>>
            /\ UNCHANGED <<findHandle, findPos, findEntries, findThrown, nativeCalls,
                           cascError>>
       ELSE LET cleared == ResetError(cascError)
                reset == EngineEvent("SetCascError", TRUE, TRUE, cleared)
            IN
            /\ nativeCalls' = Append(nativeCalls, "CascFindFirstFile")
            /\ \/ \* the engine opens a cursor on the first record
                  /\ findRecords # <<>>
                  /\ findHandle' = CursorHandle
                  /\ findPos' = 1
                  /\ findEntries' = PushCurrentEntry(<<>>, findRecords[1])
                  /\ findPc' = "iterate"
                  /\ cascError' = cleared
                  /\ engineLog' = << reset,
                                     EngineEvent("CascFindFirstFile", TRUE, FALSE, cleared) >>
                  /\ UNCHANGED findThrown
               \/ \* the engine returns an invalid handle
                  \E handle \in { 0, AllOnesHandle }, effect \in FailureEffects(cleared) :
                     LET errorCode == getLastError(effect.code) IN
                     /\ isInvalidHandle(handle)
                     /\ (effect.set /\ effect.code \in EndOfFilesCodes \cup { NoError })
                            => findRecords = <<>>
                     /\ findHandle' = handle
                     /\ cascError' = effect.code
                     /\ engineLog' = << reset,
                                        EngineEvent("CascFindFirstFile", FALSE, effect.set,
                                                    effect.code),
                                        EngineEvent("GetCascError", TRUE, FALSE, errorCode) >>
                     /\ IF FindFirstNoMatch(errorCode)
                        THEN findPc' = "returned" /\ UNCHANGED findThrown
                        ELSE findPc' = "thrown" /\ findThrown' = "CascFindFirstFile"
                     /\ UNCHANGED <<findPos, findEntries>>
    /\ UNCHANGED <<findLimit, findRecords, iterationFailed, closeFailed, staleError>>

FindNext ==
    /\ findPc = "iterate"
    /\ IF IsFinite(MaxCount(findLimit)) /\ ~ (Len(findEntries) < MaxCount(findLimit))
       THEN /\ findPc' = "close"
            /\ UNCHANGED <<findPos, findEntries, iterationFailed, findThrown, nativeCalls,
                           cascError, engineLog>>
       ELSE /\ nativeCalls' = Append(nativeCalls, "CascFindNextFile")
            /\ \/ \* success: the cursor moves to the next record
                  /\ findPos < Len(findRecords)
                  /\ findPos' = findPos + 1
                  /\ findEntries' = PushCurrentEntry(findEntries, findRecords[findPos + 1])
                  /\ engineLog' = Append(engineLog,
                                         EngineEvent("CascFindNextFile", TRUE, FALSE, cascError))
                  /\ UNCHANGED <<findPc, iterationFailed, findThrown, cascError>>
               \/ \* failure: the cursor is exhausted or the engine faults
                  \E effect \in FailureEffects(cascError) :
                     LET errorCode == getLastError(effect.code) IN
                     /\ (effect.set /\ effect.code \in EndOfFilesCodes)
                            => findPos = Len(findRecords)
                     /\ cascError' = effect.code
                     /\ engineLog' = engineLog \o
                           << EngineEvent("CascFindNextFile", FALSE, effect.set, effect.code),
                              EngineEvent("GetCascError", TRUE, FALSE, errorCode) >>
                     /\ IF FindNextEnds(errorCode)
                        THEN UNCHANGED <<iterationFailed, findThrown>>
                        ELSE iterationFailed' = TRUE /\ findThrown' = "CascFindNextFile"
                     /\ findPc' = "close"
                     /\ UNCHANGED <<findPos, findEntries>>
    /\ UNCHANGED <<findLimit, findRecords, findHandle, closeFailed, staleError>>

\* the finally block
FindClose ==
    /\ findPc = "close"
    /\ nativeCalls' = Append(nativeCalls, "CascFindClose")
    /\ \/ \* the engine releases the cursor
          /\ closeFailed' = FALSE
          /\ engineLog' = Append(engineLog,
                                 EngineEvent("CascFindClose", TRUE, FALSE, cascError))
          /\ findPc' = IF findThrown # "none" THEN "thrown" ELSE "returned"
          /\ UNCHANGED <<findThrown, cascError>>
       \/ \E effect \in FailureEffects(cascError) :
             LET failed == EngineEvent("CascFindClose", FALSE, effect.set, effect.code) IN
             /\ closeFailed' = TRUE
             /\ cascError' = effect.code
             /\ IF CloseFaultRaised(FALSE, iterationFailed)
                THEN /\ engineLog' = engineLog \o
                           << failed,
                              EngineEvent("GetCascError", TRUE, FALSE,
                                          getLastError(effect.code)) >>
                     /\ findThrown' = "CascFindClose"
                     /\ findPc' = "thrown"
                ELSE /\ engineLog' = Append(engineLog, failed)
                     /\ UNCHANGED findThrown
                     /\ findPc' = IF findThrown # "none" THEN "thrown" ELSE "returned"
    /\ UNCHANGED <<findLimit, findRecords, findHandle, findPos, findEntries,
                   iterationFailed, staleError>>

(***************************************************************************)
(* Specification of the find protocol: any limit up to the bound or none,  *)
(* any cursor of bounded length over records named a or unnamed.           *)
(***************************************************************************)
FindNames == { <<>>, << "a" >> }

FindCursors ==
    { [i \in 1..Len(ps) |-> [path |-> ps[i], size |-> i]] :
         ps \in UNION { [1..n -> FindNames] : n \in 0..MaxCursor } }

FindIdle ==
    /\ findLimit = 0 /\ findRecords = <<>> /\ findPc = "off" /\ findHandle = 0
    /\ findPos = 0 /\ findEntries = <<>> /\ iterationFailed = FALSE
    /\ findThrown = "none" /\ closeFailed = FALSE /\ nativeCalls = <<>>
    /\ cascError = NoError /\ engineLog = <<>> /\ staleError = NoError

\* a limit below zero
NegativeLimit == -2

FindInit ==
    /\ findLimit \in (0..MaxLimit) \cup { Infinity, NegativeLimit }
    /\ findRecords \in FindCursors
    /\ findPc = "start"
    /\ findHandle = 0
    /\ findPos = 0
    /\ findEntries = <<>>
    /\ iterationFailed = FALSE
    /\ findThrown = "none"
    /\ closeFailed = FALSE
    /\ nativeCalls = <<>>
    /\ cascError \in ErrorCodes
    /\ engineLog = <<>>
    /\ staleError = cascError

(***************************************************************************)
(* The other gateway operations of CascLib: openStorage, openFile,         *)
(* closeFile, getFileSize, readFile, closeStorage, getStorageInfo.  Each   *)
(* is one action; engineLog holds the native interactions it made, in      *)
(* order, the pointer helpers of the FFI layer included.                   *)
(***************************************************************************)
\* the handles of a storage and of a file the engine opened
StorageHandle == 1
FileHandleValue == 3

PointerHelpers == { "restorePointer", "freePointer" }

\* a helper of the FFI layer: no engine call, the register is untouched
HelperEvent(name, register) == EngineEvent(name, TRUE, FALSE, register)

\* what an engine call can do: succeed, or fail with an effect on the register
EngineOutcomes(register) ==
    { [ok |-> TRUE, set |-> FALSE, code |-> register] }
    \cup { [ok |-> FALSE, set |-> e.set, code |-> e.code] : e \in FailureEffects(register) }

CallEvent(call, result) == EngineEvent(call, result.ok, result.set, result.code)

\* a faulty variant: the register is cleared before it is read
FailureLookupAfterReset(register) ==
    << EngineEvent("SetCascError", TRUE, TRUE, 0),
       EngineEvent("GetCascError", TRUE, FALSE, 0) >>

\* const errorCode = this.getLastError()
FailureLookup(register) ==
    << EngineEvent("GetCascError", TRUE, FALSE, getLastError(register)) >>

NoInfo == [required |-> 0, filled |-> FALSE, passed |-> 0, written |-> 0, decoded |-> 0]

\* if (address === 0n)
NullAddress(address) == address = 0

openStorage ==
    /\ \E result \in EngineOutcomes(cascError),
          address \in { 0, AllOnesHandle, StorageHandle } :
          LET call == CallEvent("CascOpenStorage", result) IN
          /\ cascError' = result.code
          /\ IF ~ result.ok
             THEN /\ engineLog' = << call, HelperEvent("freePointer", result.code) >>
                                  \o FailureLookup(result.code)
                  /\ gateThrown' = "CascOpenStorage"
                  /\ gateValue' = 0
             ELSE IF NullAddress(address)
             THEN /\ engineLog' = << call, HelperEvent("restorePointer", result.code),
                                     HelperEvent("freePointer", result.code) >>
                                  \o FailureLookup(result.code)
                  /\ gateThrown' = "CascOpenStorage"
                  /\ gateValue' = 0
             ELSE /\ engineLog' = << call, HelperEvent("restorePointer", result.code),
                                     HelperEvent("freePointer", result.code) >>
                  /\ gateThrown' = "none"
                  /\ gateValue' = address
    /\ gateOp' = "openStorage"
    /\ UNCHANGED gateInfo

openFile ==
    /\ \E result \in EngineOutcomes(cascError),
          handle \in { 0, AllOnesHandle, FileHandleValue } :
          LET calls == << CallEvent("CascOpenFile", result),
                          HelperEvent("restorePointer", result.code),
                          HelperEvent("freePointer", result.code) >>
          IN
          /\ cascError' = result.code
          /\ IF ~ result.ok \/ isInvalidHandle(handle)
             THEN /\ engineLog' = calls \o FailureLookup(result.code)
                  /\ gateThrown' = "CascOpenFile"
                  /\ gateValue' = 0
             ELSE /\ engineLog' = calls
                  /\ gateThrown' = "none"
                  /\ gateValue' = handle
    /\ gateOp' = "openFile"
    /\ UNCHANGED gateInfo

\* closeFile and closeStorage
CloseHandle(operation, call) ==
    /\ \E result \in EngineOutcomes(cascError) :
          /\ cascError' = result.code
          /\ IF ~ result.ok
             THEN /\ engineLog' = << CallEvent(call, result) >> \o FailureLookup(result.code)
                  /\ gateThrown' = call
             ELSE /\ engineLog' = << CallEvent(call, result) >>
                  /\ gateThrown' = "none"
    /\ gateValue' = 0
    /\ gateOp' = operation
    /\ UNCHANGED gateInfo

closeFile == CloseHandle("closeFile", "CascCloseFile")

closeStorage == CloseHandle("closeStorage", "CascCloseStorage")

getFileSize ==
    /\ \E result \in EngineOutcomes(cascError), size \in 0..MaxInfoSize :
          LET calls == << CallEvent("CascGetFileSize64", result),
                          HelperEvent("restorePointer", result.code),
                          HelperEvent("freePointer", result.code) >>
          IN
          /\ cascError' = result.code
          /\ IF ~ result.ok
             THEN /\ engineLog' = calls \o FailureLookup(result.code)
                  /\ gateThrown' = "CascGetFileSize64"
                  /\ gateValue' = 0
             ELSE /\ engineLog' = calls
                  /\ gateThrown' = "none"
                  /\ gateValue' = size
    /\ gateOp' = "getFileSize"
    /\ UNCHANGED gateInfo

\* a faulty variant: no error code stands for the end of the stream
IsEndOfStreamNever(errorCode) == FALSE

\* errorCode !== ERROR_HANDLE_EOF, negated
IsEndOfStream(errorCode) == errorCode = ERROR_HANDLE_EOF

\* a faulty variant: a failed read is looked into whatever it transferred
ReadFailedAnyBytes(success, bytesRead) == ~ success

\* if (!success && bytesRead === 0)
ReadFailed(success, bytesRead) == ~ success /\ bytesRead = 0

\* length: the bytes requested (the third argument)
readFile(length) ==
    /\ \E result \in EngineOutcomes(cascError), bytesRead \in 0..length :
          LET calls == << CallEvent("CascReadFile", result),
                          HelperEvent("restorePointer", result.code),
                          HelperEvent("freePointer", result.code) >>
          IN
          /\ cascError' = result.code
          /\ gateInfo' = [NoInfo EXCEPT !.passed = length, !.written = bytesRead]
          /\ IF ReadFailed(result.ok, bytesRead)
             THEN /\ engineLog' = calls \o FailureLookup(result.code)
                  /\ IF ~ IsEndOfStream(getLastError(result.code))
                     THEN gateThrown' = "CascReadFile" /\ gateValue' = 0
                     ELSE gateThrown' = "none" /\ gateValue' = bytesRead
             ELSE /\ engineLog' = calls
                  /\ gateThrown' = "none"
                  /\ gateValue' = bytesRead
    /\ gateOp' = "readFile"

\* a faulty variant: a size of zero or less is taken for a buffer size
SizeQueryNeverFails(requiredSize) == FALSE

\* if (!Number.isFinite(requiredSize) || requiredSize <= 0)
SizeQueryFailed(requiredSize) == requiredSize <= 0

\* a faulty variant: the whole buffer is decoded whatever was written
EffectiveLengthWhole(bytesWritten, bufferLength) == bufferLength

\* effectiveBuffer.length
EffectiveLength(bytesWritten, bufferLength) ==
    IF bytesWritten > 0
    THEN (IF bytesWritten < bufferLength THEN bytesWritten ELSE bufferLength)
    ELSE bufferLength

getStorageInfo ==
    /\ \E sizeQuery \in EngineOutcomes(cascError), requiredSize \in (-1)..MaxInfoSize :
          LET firstCalls == << CallEvent("CascGetStorageInfo", sizeQuery),
                               HelperEvent("restorePointer", sizeQuery.code),
                               HelperEvent("freePointer", sizeQuery.code) >>
          IN
          IF SizeQueryFailed(requiredSize)
          THEN /\ cascError' = sizeQuery.code
               /\ engineLog' = firstCalls \o FailureLookup(sizeQuery.code)
               /\ gateThrown' = "CascGetStorageInfo"
               /\ gateValue' = 0
               /\ gateInfo' = [required |-> requiredSize, filled |-> FALSE, passed |-> 0,
                               written |-> 0, decoded |-> 0]
          ELSE \E result \in EngineOutcomes(sizeQuery.code),
                  bytesWritten \in (-1)..(MaxInfoSize + 1) :
                  LET calls == firstCalls \o
                               << CallEvent("CascGetStorageInfo", result),
                                  HelperEvent("restorePointer", result.code),
                                  HelperEvent("freePointer", result.code) >>
                  IN
                  /\ cascError' = result.code
                  /\ IF ~ result.ok
                     THEN /\ engineLog' = calls \o FailureLookup(result.code)
                          /\ gateThrown' = "CascGetStorageInfo"
                          /\ gateValue' = 0
                          /\ gateInfo' = [required |-> requiredSize, filled |-> TRUE,
                                          passed |-> requiredSize,
                                          written |-> bytesWritten, decoded |-> 0]
                     ELSE /\ engineLog' = calls
                          /\ gateThrown' = "none"
                          /\ gateValue' = EffectiveLength(bytesWritten, requiredSize)
                          /\ gateInfo' = [required |-> requiredSize, filled |-> TRUE,
                                          passed |-> requiredSize,
                                          written |-> bytesWritten,
                                          decoded |-> EffectiveLength(bytesWritten, requiredSize)]
    /\ gateOp' = "getStorageInfo"

GateIdle ==
    /\ gateOp = "none"
    /\ gateThrown = "none"
    /\ gateValue = 0
    /\ gateInfo = NoInfo

GateInit == GateIdle

\* one call of a gateway operation
GatewayCall ==
    /\ findPc = "start"
    /\ gateOp = "none"
    /\ UNCHANGED findCoreVars

OpenStorageCall == GatewayCall /\ openStorage
OpenFileCall == GatewayCall /\ openFile
CloseFileCall == GatewayCall /\ closeFile
GetFileSizeCall == GatewayCall /\ getFileSize
ReadFileCall == GatewayCall /\ \E length \in 1..MaxChunk : readFile(length)
CloseStorageCall == GatewayCall /\ closeStorage
GetStorageInfoCall == GatewayCall /\ getStorageInfo

(***************************************************************************)
(* Enumeration Aggregator: aggregateFileEntries / collectEntries           *)
(***************************************************************************)
MapHas(results, path) == \E i \in 1..Len(results) : results[i].path = path

\* a faulty variant: results.set is reached for a known path too and replaces the
\* stored entry (the later entry wins)
MergeFilesLastWins(results, budget, files, finite) ==
    LET RECURSIVE Loop(_, _, _)
        Loop(res, rem, rest) ==
            IF rest = <<>> THEN [results |-> res, remaining |-> rem]
            ELSE IF MapHas(res, Head(rest).path)
                 THEN Loop([i \in 1..Len(res) |->
                              IF res[i].path = Head(rest).path THEN Head(rest) ELSE res[i]],
                           rem, Tail(rest))
                 ELSE IF finite /\ rem - 1 = 0
                      THEN [results |-> Append(res, Head(rest)), remaining |-> 0]
                      ELSE Loop(Append(res, Head(rest)),
                                IF finite THEN rem - 1 ELSE rem, Tail(rest))
    IN  Loop(results, budget, files)

\* for (const entry of files): skip known paths, store new ones, count down
\* the budget and stop at zero
RECURSIVE MergeFiles(_, _, _, _)
MergeFiles(results, budget, files, finite) ==
    IF files = <<>> THEN [results |-> results, remaining |-> budget]
    ELSE IF MapHas(results, Head(files).path)
         THEN MergeFiles(results, budget, Tail(files), finite)
         ELSE IF finite /\ budget - 1 = 0
              THEN [results |-> Append(results, Head(files)), remaining |-> 0]
              ELSE MergeFiles(Append(results, Head(files)),
                              IF finite THEN budget - 1 ELSE budget,
                              Tail(files), finite)

\* a faulty variant: the catch returns the entries merged so far (a partial listing)
OnEnumerationFaultPartial(results, asked) ==
    [thrown |-> FALSE, entries |-> results, queries |-> asked]

\* catch (error) { logStageError(...); return null; }
OnEnumerationFault(results, asked) ==
    [thrown |-> TRUE, entries |-> <<>>, queries |-> asked]

\* for (const activeMask of masks), from mask k on.  engine maps an active
\* mask to the records its cursor yields; failMask/failAt name the native find
\* call that reports a fault (failMask = 0: none).  queries records every
\* listStorageFiles call made, with the limit it was given.
\* a faulty variant: the loop over the masks never breaks on the budget
BudgetNeverExhausted(budget) == FALSE

\* if (remaining === 0) break
BudgetExhausted(budget) == IsFinite(budget) /\ budget = 0

\* a faulty variant: every mask is requested with the original limit
QueryLimitOriginal(limit, budget) == limit

\* if (Number.isFinite(limit)) queryOptions.limit = remaining
QueryLimit(limit, budget) == IF IsFinite(limit) THEN budget ELSE Infinity

RECURSIVE AggregateLoop(_, _, _, _, _, _, _, _, _)
AggregateLoop(masks, k, results, budget, limit, engine, failMask, failAt, queries) ==
    IF k > Len(masks) \/ BudgetExhausted(budget)
    THEN [thrown |-> FALSE, entries |-> results, queries |-> queries]
    ELSE LET activeMask == masks[k]
             queryLimit == QueryLimit(limit, budget)
             listed == listStorageFiles(engine[activeMask], queryLimit,
                                        IF failMask = k THEN failAt ELSE 0)
             asked == Append(queries, [mask |-> activeMask, limit |-> queryLimit])
         IN  IF listed.thrown
             THEN OnEnumerationFault(results, asked)
             ELSE LET merged == MergeFiles(results, budget, listed.entries, IsFinite(limit))
                  IN  AggregateLoop(masks, k + 1, merged.results, merged.remaining,
                                    limit, engine, failMask, failAt, asked)

\* thrown stands for the null result returned after logStageError
aggregateFileEntries(mask, limit, engine, failMask, failAt) ==
    AggregateLoop(expandMaskPatterns(mask), 1, <<>>,
                  IF IsFinite(limit) THEN limit ELSE Infinity,
                  limit, engine, failMask, failAt, <<>>)

collectEntries(mask, limitValue, engine, failMask, failAt) ==
    AggregateLoop(expandMaskPatterns(mask), 1, <<>>,
                  IF IsFinite(limitValue) THEN limitValue ELSE Infinity,
                  limitValue, engine, failMask, failAt, <<>>)

(***************************************************************************)
(* Specification of the aggregation: the mask is one of three masks, the   *)
(* engine's cursor of every expanded mask is any sequence of bounded       *)
(* length of records with the paths a and b, the limit any value up to the *)
(* bound or Infinity, and any one native find call may report a fault.     *)
(***************************************************************************)
MaskX == << "x" >>
MaskY == << "y" >>
MaskZ == << "z" >>
MaskXY == << "{", "x", ",", "y", "}" >>
MaskXYZ == << "{", "x", ",", "y", ",", "z", "}" >>
AggMasks == { MaskX, MaskXY, MaskXYZ }
ActiveMasks == { MaskX, MaskY, MaskZ }
MaskNumber(m) == IF m = MaskX THEN 1 ELSE IF m = MaskY THEN 2 ELSE 3

AggPaths == { << "a" >>, << "b" >> }

\* the record the cursor of mask m yields at position i: its size tells
\* records of the same path apart
FindRecord(m, i, path) == [path |-> path, size |-> 10 * MaskNumber(m) + i]

CursorContents(m) ==
    { [i \in 1..Len(ps) |-> FindRecord(m, i, ps[i])] : ps \in StringsUpTo(AggPaths, MaxCursor) }

\* no aggregation has run yet
NoResult == [thrown |-> FALSE, entries |-> <<>>, queries |-> <<>>]

AggIdle ==
    /\ aggMask = <<>> /\ aggLimit = 0 /\ cursors = <<>>
    /\ aggResult = NoResult /\ aggPc = "off"

AggInit ==
    /\ aggMask \in AggMasks
    /\ aggLimit \in (0..MaxLimit) \cup { Infinity }
    /\ cursors \in { f \in [ActiveMasks -> UNION { CursorContents(m) : m \in ActiveMasks }] :
                       \A m \in ActiveMasks :
                           /\ f[m] \in CursorContents(m)
                           /\ (\A k \in 1..Len(expandMaskPatterns(aggMask)) :
                                   expandMaskPatterns(aggMask)[k] # m) => f[m] = <<>> }
    /\ aggResult = NoResult
    /\ aggPc = "input"

Aggregate ==
    /\ aggPc = "input"
    /\ \E failMask \in 0..Len(expandMaskPatterns(aggMask)), failAt \in 1..2 :
          /\ (failMask = 0 => failAt = 1)
          /\ aggResult' = aggregateFileEntries(aggMask, aggLimit, cursors, failMask, failAt)
    /\ aggPc' = "done"
    /\ UNCHANGED <<aggMask, aggLimit, cursors>>


(***************************************************************************)
(* The list and extract commands: listStorageFiles, extractStorageEntries, *)
(* extractEntries.  Native gateway calls either return or raise a fault;   *)
(* file system calls either succeed or throw.                              *)
(***************************************************************************)
NullHandle == 0
FailureExitCode == 1
BufferCap == 2147483392
MaxFileSize == 2 * MaxChunk + 1
DEFAULT_CHUNK_SIZE == 1048576
ChunkCeiling == 2147483647

\* the --chunk-size option: absent, a number (or a string parseInt reads as
\* that number), a string that is no number, or a number beyond 2^31 - 1
\* (n is not used then)
ChunkOption(kind, n) == [kind |-> kind, n |-> n]

parseChunkSize(value) ==
    IF value.kind = "undefined" THEN DEFAULT_CHUNK_SIZE
    ELSE IF value.kind = "beyond" THEN ChunkCeiling
    ELSE IF value.kind = "number" /\ value.n > 0 THEN Min(value.n, ChunkCeiling)
    ELSE DEFAULT_CHUNK_SIZE

\* a faulty variant: the buffer is as long as the chunk size, uncapped
BufferLengthUncapped(chunk) == chunk

\* Buffer.alloc(Math.min(options.chunkSize, 0x7fff_ff00)).length
BufferLength(chunk) == Min(chunk, BufferCap)

Event(op, arg) == [op |-> op, arg |-> arg]
Count(events, op, arg) ==
    Cardinality({ i \in 1..Len(events) : events[i] = Event(op, arg) })
CountOp(events, op) ==
    Cardinality({ i \in 1..Len(events) : events[i].op = op })

\* a faulty variant: a return inside the try block leaves without the finally block
ReturnSkipsFinally == "done"

\* where a return inside try { ... } finally { closeStorage } continues
ReturnInsideTry == "finally"

\* a faulty variant: a continue inside the try block goes straight to the next entry
ContinueSkipsFinally == "entry"

\* where a continue, or the end of the block, inside
\* try { ... } finally { closeFile } continues
ContinueInsideTry == "closeFile"

\* a faulty variant: a failed openFile ends the loop
AfterOpenFileFaultBreak == "finally"

\* catch (error) { logStageError(...); continue; } after openFile
AfterOpenFileFault == "entry"

\* a faulty variant: the destination is always opened with truncation
OpenFlagsAlwaysTruncate(ow) == "w"

\* const flags = options.overwrite ? 'w' : 'wx'
OpenFlags(ow) == IF ow THEN "w" ELSE "wx"

\* fs.openSync(path, flags) on the files below the output directory: 'wx'
\* fails with EEXIST on an existing path, 'w' truncates it, both create a
\* missing file
openSync(files, path, flags, owner) ==
    IF path \in DOMAIN files
    THEN IF flags = "wx"
         THEN [error |-> "EEXIST", files |-> files]
         ELSE [error |-> "none",
               files |-> [files EXCEPT ![path] = [owner |-> owner, len |-> 0]]]
    ELSE [error |-> "none", files |-> files @@ (path :> [owner |-> owner, len |-> 0])]

\* a faulty variant: a whole buffer is requested whatever remains
BytesToReadBuffer(rem, bufferLength) == bufferLength

\* const toRead = remaining < BigInt(buffer.length) ? Number(remaining) : buffer.length
BytesToRead(rem, bufferLength) == IF rem < bufferLength THEN rem ELSE bufferLength

\* a faulty variant: the counter goes down by the bytes requested, not the bytes read
RemainingAfterReadRequested(rem, toRead, bytesRead) == rem - toRead

\* remaining -= BigInt(bytesRead)
RemainingAfterRead(rem, toRead, bytesRead) == rem - bytesRead

\* a faulty variant: the entries are taken from the end of the list
EntryAtReversed(list, i) == list[Len(list) + 1 - i]

\* for (const entry of entries): the i-th entry of the loop
EntryAt(list, i) == list[i]

OpenStorage ==
    /\ pc = "start"
    /\ \/ \* resolveStoragePath returns null
          /\ exitCode' = FailureExitCode
          /\ pc' = "done"
          /\ UNCHANGED <<storageAddress, faulted, trace>>
       \/ \* openStorage raises a fault: handle === null, return
          /\ exitCode' = FailureExitCode
          /\ faulted' = TRUE
          /\ pc' = ReturnInsideTry
          /\ UNCHANGED <<storageAddress, trace>>
       \/ /\ storageAddress' = StorageHandle
          /\ trace' = Append(trace, Event("openStorage", StorageHandle))
          /\ pc' = IF cmd = "list" THEN "info" ELSE "collect"
          /\ UNCHANGED <<exitCode, faulted>>
    /\ UNCHANGED <<optVars, enumFault, entries, emitted, entryVars, aggVars>>

FetchStorageInfo ==
    /\ pc = "info"
    /\ \/ /\ pc' = "collect"
          /\ UNCHANGED <<exitCode, faulted>>
       \/ \* getStorage raises a fault: info === null, return
          /\ exitCode' = FailureExitCode
          /\ faulted' = TRUE
          /\ pc' = ReturnInsideTry
    /\ UNCHANGED <<optVars, storageAddress, enumFault, entries, emitted, trace,
                   entryVars, aggVars>>

QueryEvents(queries) ==
    [k \in 1..Len(queries) |-> Event("listStorageFiles", queries[k].mask)]

Collect ==
    /\ pc = "collect"
    /\ \E failMask \in 0..Len(expandMaskPatterns(aggMask)), failAt \in 1..2 :
          LET res == IF cmd = "list"
                     THEN aggregateFileEntries(aggMask, aggLimit, cursors, failMask, failAt)
                     ELSE collectEntries(aggMask, aggLimit, cursors, failMask, failAt)
          IN  /\ failMask = 0 => failAt = 1
              /\ enumFault' = [mask |-> failMask, at |-> failAt]
              /\ aggResult' = res
              /\ trace' = trace \o QueryEvents(res.queries)
              /\ IF res.thrown
                 THEN /\ exitCode' = FailureExitCode
                      /\ faulted' = TRUE
                      /\ pc' = ReturnInsideTry
                      /\ UNCHANGED <<entries, idx>>
                 ELSE /\ entries' = res.entries
                      /\ idx' = 1
                      /\ pc' = IF cmd = "list" THEN "emit"
                               ELSE IF Len(res.entries) = 0 THEN ReturnInsideTry
                               ELSE "entry"
                      /\ UNCHANGED <<exitCode, faulted>>
    /\ UNCHANGED <<optVars, storageAddress, emitted, fileHandle, fileSize, remaining,
                   written, dest, fd, outcome, outcomes, extractedCount, fs,
                   aggMask, aggLimit, cursors, aggPc>>

EmitListing ==
    /\ pc = "emit"
    /\ \/ /\ emitted' = TRUE
          /\ UNCHANGED exitCode
       \/ \* buildTreeFromEntries or writeFileSync throws
          /\ jsonOutput
          /\ exitCode' = FailureExitCode
          /\ UNCHANGED emitted
    /\ pc' = "finally"
    /\ UNCHANGED <<optVars, storageAddress, faulted, enumFault, entries, trace,
                   entryVars, aggVars>>

\* a faulty variant: no entry is taken for a pseudo-directory marker
IsPseudoDirectoryNever(path) == FALSE

\* entry.path.endsWith(':')
IsPseudoDirectory(path) == EndsWith(path, << ":" >>)

EntryBegin ==
    /\ pc = "entry"
    /\ idx <= Len(entries)
    /\ LET entry == EntryAt(entries, idx) IN
       \/ \* if (entry.path.endsWith(':')) continue
          /\ IsPseudoDirectory(entry.path)
          /\ outcomes' = Append(outcomes, [path |-> entry.path, kind |-> "pseudo"])
          /\ idx' = idx + 1
          /\ UNCHANGED <<pc, exitCode, faulted, trace, fileHandle>>
       \/ \* openFile raises a fault
          /\ ~ IsPseudoDirectory(entry.path)
          /\ exitCode' = FailureExitCode
          /\ faulted' = TRUE
          /\ outcomes' = Append(outcomes, [path |-> entry.path, kind |-> "openFault"])
          /\ idx' = idx + 1
          /\ pc' = AfterOpenFileFault
          /\ UNCHANGED <<trace, fileHandle>>
       \/ /\ ~ IsPseudoDirectory(entry.path)
          /\ fileHandle' = idx
          /\ trace' = Append(trace, Event("openFile", idx))
          /\ pc' = "opened"
          /\ UNCHANGED <<exitCode, faulted, outcomes, idx>>
    /\ fileSize' = 0 /\ remaining' = 0 /\ written' = 0 /\ dest' = <<>>
    /\ fd' = FALSE /\ outcome' = "none"
    /\ UNCHANGED <<optVars, storageAddress, enumFault, entries, emitted,
                   extractedCount, fs, aggVars>>

PrepareDestination ==
    /\ pc = "opened"
    /\ \/ \* getFileSize raises a fault
          /\ exitCode' = FailureExitCode
          /\ faulted' = TRUE
          /\ outcome' = "sizeFault"
          /\ pc' = ContinueInsideTry
          /\ UNCHANGED <<fileSize, remaining, dest, fd, fs>>
       \/ \E size \in 0..MaxFileSize :
             LET destinationRelative == sanitizeRelativePath(EntryAt(entries, idx).path, "/")
                 opened == openSync(fs, destinationRelative, OpenFlags(overwrite), idx)
             IN  /\ fileSize' = size
                 /\ remaining' = size
                 /\ dest' = destinationRelative
                 /\ \/ \* ensureDirectoryForFile throws
                       /\ exitCode' = FailureExitCode
                       /\ outcome' = "dirFault"
                       /\ pc' = ContinueInsideTry
                       /\ UNCHANGED <<fd, fs, faulted>>
                    \/ \* openSync throws EEXIST
                       /\ opened.error = "EEXIST"
                       /\ IF ~ overwrite
                          THEN outcome' = "skipped" /\ UNCHANGED exitCode
                          ELSE outcome' = "destError" /\ exitCode' = FailureExitCode
                       /\ pc' = ContinueInsideTry
                       /\ UNCHANGED <<fd, fs, faulted>>
                    \/ \* openSync throws another error
                       /\ exitCode' = FailureExitCode
                       /\ outcome' = "destError"
                       /\ pc' = ContinueInsideTry
                       /\ UNCHANGED <<fd, fs, faulted>>
                    \/ /\ opened.error = "none"
                       /\ fs' = opened.files
                       /\ fd' = TRUE
                       /\ pc' = "stream"
                       /\ UNCHANGED <<exitCode, outcome, faulted>>
    /\ UNCHANGED <<optVars, storageAddress, enumFault, entries, emitted, trace,
                   idx, fileHandle, written, outcomes, extractedCount, aggVars>>

\* the body of the read loop after readFile raised a fault (thrown) or
\* returned bytesRead
StreamStep(thrown, toRead, bytesRead) ==
    IF thrown
    THEN /\ exitCode' = FailureExitCode
         /\ faulted' = TRUE
         /\ outcome' = "readFault"
         /\ fd' = FALSE
         /\ pc' = ContinueInsideTry
         /\ UNCHANGED <<remaining, written, fs>>
    ELSE IF bytesRead = 0
    THEN /\ pc' = "eof"
         /\ UNCHANGED <<exitCode, faulted, outcome, fd, remaining, written, fs>>
    ELSE \/ /\ fs' = [fs EXCEPT ![dest].len = @ + bytesRead]
            /\ written' = written + bytesRead
            /\ remaining' = RemainingAfterRead(remaining, toRead, bytesRead)
            /\ UNCHANGED <<pc, exitCode, faulted, outcome, fd>>
         \/ \* writeSync throws
            /\ exitCode' = FailureExitCode
            /\ outcome' = "writeFault"
            /\ fd' = FALSE
            /\ pc' = ContinueInsideTry
            /\ UNCHANGED <<faulted, remaining, written, fs>>

\* one iteration of while (remaining > 0n); readFile raises a fault or
\* returns a byte count
ReadChunk ==
    /\ pc = "stream"
    /\ remaining > 0
    /\ LET toRead == BytesToRead(remaining, BufferLength(chunkSize))
       IN  \/ StreamStep(TRUE, toRead, 0)
           \/ \E bytesRead \in 0..toRead : StreamStep(FALSE, toRead, bytesRead)
    /\ UNCHANGED <<optVars, storageAddress, enumFault, entries, emitted, trace,
                   idx, fileHandle, fileSize, dest, outcomes, extractedCount, aggVars>>

\* the same iteration with the native read CascLib.readFile makes
ReadChunkNative ==
    /\ pc = "stream"
    /\ remaining > 0
    /\ LET toRead == BytesToRead(remaining, BufferLength(chunkSize))
       IN  /\ readFile(toRead)
           /\ StreamStep(gateThrown' # "none", toRead, gateValue')
    /\ UNCHANGED <<optVars, storageAddress, enumFault, entries, emitted, trace,
                   idx, fileHandle, fileSize, dest, outcomes, extractedCount, aggVars>>
    /\ UNCHANGED findCoreVars

StreamEnd ==
    /\ \/ pc = "stream" /\ ~ (remaining > 0)
       \/ pc = "eof"
    /\ IF remaining = 0
       THEN /\ extractedCount' = extractedCount + 1
            /\ outcome' = "extracted"
            /\ \/ UNCHANGED exitCode
               \/ \* closeSync throws
                  exitCode' = FailureExitCode
       ELSE /\ exitCode' = FailureExitCode
            /\ outcome' = "incomplete"
            /\ UNCHANGED extractedCount
    /\ fd' = FALSE
    /\ pc' = ContinueInsideTry
    /\ UNCHANGED <<optVars, storageAddress, faulted, enumFault, entries, emitted, trace,
                   idx, fileHandle, fileSize, remaining, written, dest, outcomes, fs,
                   aggVars>>

CloseFile ==
    /\ pc = "closeFile"
    /\ IF fileHandle # NullHandle
       THEN /\ trace' = Append(trace, Event("closeFile", fileHandle))
            /\ \/ UNCHANGED faulted
               \/ \* closeFile raises a fault: reported, nothing else
                  faulted' = TRUE
       ELSE UNCHANGED <<trace, faulted>>
    /\ fileHandle' = NullHandle
    /\ outcomes' = Append(outcomes, [path |-> EntryAt(entries, idx).path, kind |-> outcome])
    /\ idx' = idx + 1
    /\ pc' = "entry"
    /\ UNCHANGED <<optVars, storageAddress, exitCode, enumFault, entries, emitted,
                   fileSize, remaining, written, dest, fd, outcome, extractedCount,
                   fs, aggVars>>

ExtractDone ==
    /\ pc = "entry"
    /\ idx > Len(entries)
    /\ pc' = "finally"
    /\ UNCHANGED <<optVars, storageAddress, exitCode, faulted, enumFault, entries,
                   emitted, trace, entryVars, aggVars>>

CloseStorage ==
    /\ pc = "finally"
    /\ IF storageAddress # NullHandle
       THEN /\ trace' = Append(trace, Event("closeStorage", storageAddress))
            /\ \/ UNCHANGED faulted
               \/ \* closeStorage raises a fault: reported, nothing else
                  faulted' = TRUE
       ELSE UNCHANGED <<trace, faulted>>
    /\ pc' = "done"
    /\ UNCHANGED <<optVars, storageAddress, exitCode, enumFault, entries, emitted,
                   entryVars, aggVars>>

(***************************************************************************)
(* Specification of the commands: the mask {x,y} over a storage whose two  *)
(* cursors hold a few entries (a pseudo-directory marker, two paths with   *)
(* the same destination, a plain file), with and without an existing       *)
(* destination file.                                                       *)
(***************************************************************************)
PathColon == << "a", ":", "b" >>
PathSlash == << "a", "/", "b" >>
PathPseudo == << "d", ":" >>
PathPlain == << "c" >>

Records(m, paths) == [i \in 1..Len(paths) |-> FindRecord(m, i, paths[i])]

CmdCursorsX ==
    { Records(MaskX, ps) : ps \in { <<>>, << PathColon, PathSlash >>,
                                    << PathPseudo, PathPlain >>,
                                    << PathPlain, PathSlash >> } }
CmdCursorsY == { Records(MaskY, ps) : ps \in { <<>>, << PathSlash >> } }

\* a file that exists before the command runs
ExistingFile == [owner |-> 0, len |-> 1]
ExistingPaths == { sanitizeRelativePath(PathSlash, "/") }

CmdIdle ==
    /\ cmd = "off" /\ pc = "off" /\ jsonOutput = FALSE /\ overwrite = FALSE
    /\ chunkSize = 1 /\ storageAddress = NullHandle /\ exitCode = 0
    /\ faulted = FALSE /\ enumFault = [mask |-> 0, at |-> 1] /\ entries = <<>>
    /\ emitted = FALSE /\ trace = <<>> /\ idx = 0 /\ fileHandle = NullHandle
    /\ fileSize = 0 /\ remaining = 0 /\ written = 0 /\ dest = <<>> /\ fd = FALSE
    /\ outcome = "none" /\ outcomes = <<>> /\ extractedCount = 0 /\ fs = <<>>
    /\ existing = {}

CmdInit ==
    /\ cmd \in { "list", "extract" }
    /\ pc = "start"
    /\ jsonOutput \in (IF cmd = "list" THEN BOOLEAN ELSE { FALSE })
    /\ overwrite \in (IF cmd = "extract" THEN BOOLEAN ELSE { FALSE })
    /\ chunkSize \in (IF cmd = "extract" THEN 1..MaxChunk ELSE { 1 })
    /\ existing \in (IF cmd = "extract" THEN SUBSET ExistingPaths ELSE { {} })
    /\ fs = [p \in existing |-> ExistingFile]
    /\ aggMask = MaskXY
    /\ aggLimit \in { 0, 2, Infinity }
    /\ cursors \in { (MaskX :> x) @@ (MaskY :> y) @@ (MaskZ :> <<>>) :
                       x \in CmdCursorsX, y \in CmdCursorsY }
    /\ aggResult = NoResult /\ aggPc = "off"
    /\ storageAddress = NullHandle /\ exitCode = 0
    /\ faulted = FALSE /\ enumFault = [mask |-> 0, at |-> 1] /\ entries = <<>>
    /\ emitted = FALSE /\ trace = <<>> /\ idx = 0 /\ fileHandle = NullHandle
    /\ fileSize = 0 /\ remaining = 0 /\ written = 0 /\ dest = <<>> /\ fd = FALSE
    /\ outcome = "none" /\ outcomes = <<>> /\ extractedCount = 0

(***************************************************************************)
(* Specification of the mask resolver: the mask is drawn from all strings  *)
(* of bounded length over { } , a b, plus the documented example.          *)
(***************************************************************************)
MaskAlphabet == { "{", "}", ",", "a", "b" }

NestedExample == << "a", "{", "b", ",", "c", "{", "d", ",", "e", "}", "}", "f" >>

MaskInputs == StringsUpTo(MaskAlphabet, MaxMaskLen) \cup { NestedExample }

MaskIdle == pattern = <<>> /\ expanded = <<>> /\ maskPc = "off"

MaskInit ==
    /\ pattern \in MaskInputs
    /\ expanded = <<>>
    /\ maskPc = "input"

ExpandMask ==
    /\ maskPc = "input"
    /\ expanded' = expandMaskPatterns(pattern)
    /\ maskPc' = "expanded"
    /\ UNCHANGED pattern

\* the chunk size and the read request: any option value, small or around
\* the two caps, and any remaining byte count, small or around the caps
ChunkNumbers ==
    ((-1)..MaxChunk) \cup { DEFAULT_CHUNK_SIZE + 1, BufferCap - 1, BufferCap,
                            BufferCap + 1, ChunkCeiling }
ChunkOptions ==
    { ChunkOption("undefined", 0), ChunkOption("invalid", 0), ChunkOption("beyond", 0) }
    \cup { ChunkOption("number", n) : n \in ChunkNumbers }
RemainingCounts ==
    (1..MaxFileSize) \cup { DEFAULT_CHUNK_SIZE, BufferCap - 1, BufferCap, BufferCap + 1,
                            ChunkCeiling }

ChunkIdle ==
    /\ chunkValue = ChunkOption("undefined", 0) /\ chunkLeft = 0
    /\ chunkParsed = 0 /\ chunkToRead = 0 /\ chunkPc = "off"

ChunkInit ==
    /\ chunkValue \in ChunkOptions
    /\ chunkLeft \in RemainingCounts
    /\ chunkParsed = 0
    /\ chunkToRead = 0
    /\ chunkPc = "input"

\* the first read request of a file of chunkLeft bytes
RequestRead ==
    /\ chunkPc = "input"
    /\ chunkParsed' = parseChunkSize(chunkValue)
    /\ chunkToRead' = BytesToRead(chunkLeft, BufferLength(parseChunkSize(chunkValue)))
    /\ chunkPc' = "requested"
    /\ UNCHANGED <<chunkValue, chunkLeft>>

InitMask == MaskInit /\ SanIdle /\ AggIdle /\ CmdIdle /\ TreeIdle /\ TagIdle /\ FindIdle /\ GateIdle /\ ChunkIdle /\ ProductIdle
NextMask == ExpandMask /\ UNCHANGED <<sanVars, aggVars, cmdVars, treeVars, tagVars, findVars, gateVars, chunkVars, productVars>>
SpecMask == InitMask /\ [][NextMask]_vars

InitSan == SanInit /\ MaskIdle /\ AggIdle /\ CmdIdle /\ TreeIdle /\ TagIdle /\ FindIdle /\ GateIdle /\ ChunkIdle /\ ProductIdle
NextSan == Sanitize /\ UNCHANGED <<maskVars, aggVars, cmdVars, treeVars, tagVars, findVars, gateVars, chunkVars, productVars>>
SpecSan == InitSan /\ [][NextSan]_vars

InitAgg == AggInit /\ MaskIdle /\ SanIdle /\ CmdIdle /\ TreeIdle /\ TagIdle /\ FindIdle /\ GateIdle /\ ChunkIdle /\ ProductIdle
NextAgg == Aggregate /\ UNCHANGED <<maskVars, sanVars, cmdVars, treeVars, tagVars, findVars, gateVars, chunkVars, productVars>>
SpecAgg == InitAgg /\ [][NextAgg]_vars

InitCmd == CmdInit /\ MaskIdle /\ SanIdle /\ TreeIdle /\ TagIdle /\ FindIdle /\ GateIdle /\ ChunkIdle /\ ProductIdle
NextCmd ==
    /\ \/ OpenStorage
       \/ FetchStorageInfo
       \/ Collect
       \/ EmitListing
       \/ EntryBegin
       \/ PrepareDestination
       \/ ReadChunk
       \/ StreamEnd
       \/ CloseFile
       \/ ExtractDone
       \/ CloseStorage
    /\ UNCHANGED <<maskVars, sanVars, treeVars, tagVars, findVars, gateVars, chunkVars, productVars>>
SpecCmd == InitCmd /\ [][NextCmd]_vars

\* the extract command over a pseudo-directory marker and one plain file,
\* every read of the file being a native read of the gateway
InitStream ==
    /\ CmdInit
    /\ cmd = "extract"
    /\ aggLimit = Infinity
    /\ cursors[MaskX] = Records(MaskX, << PathPseudo, PathPlain >>)
    /\ cursors[MaskY] = <<>>
    /\ MaskIdle /\ SanIdle /\ TreeIdle /\ TagIdle /\ FindIdle /\ GateIdle /\ ChunkIdle
    /\ ProductIdle
StreamOther ==
    \/ OpenStorage
    \/ Collect
    \/ EntryBegin
    \/ PrepareDestination
    \/ StreamEnd
    \/ CloseFile
    \/ ExtractDone
    \/ CloseStorage
NextStream ==
    /\ \/ ReadChunkNative
       \/ (StreamOther /\ UNCHANGED <<findVars, gateVars>>)
    /\ UNCHANGED <<maskVars, sanVars, treeVars, tagVars, chunkVars, productVars>>
SpecStream == InitStream /\ [][NextStream]_vars
\* the loop is synchronous code: an iteration that can run does run, and so
\* does the code after the loop
SpecStreamLive == SpecStream /\ WF_cmdVars(ReadChunkNative) /\ WF_cmdVars(StreamEnd)

InitTree == TreeInit /\ MaskIdle /\ SanIdle /\ AggIdle /\ CmdIdle /\ TagIdle /\ FindIdle /\ GateIdle /\ ChunkIdle /\ ProductIdle
NextTree == BuildTree /\ UNCHANGED <<maskVars, sanVars, aggVars, cmdVars, tagVars, findVars, gateVars, chunkVars, productVars>>
SpecTree == InitTree /\ [][NextTree]_vars

InitTag == TagInit /\ MaskIdle /\ SanIdle /\ AggIdle /\ CmdIdle /\ TreeIdle /\ FindIdle /\ GateIdle /\ ChunkIdle /\ ProductIdle
NextTag == ParseTags /\ UNCHANGED <<maskVars, sanVars, aggVars, cmdVars, treeVars, findVars, gateVars, chunkVars, productVars>>
SpecTag == InitTag /\ [][NextTag]_vars

InitFind == FindInit /\ MaskIdle /\ SanIdle /\ AggIdle /\ CmdIdle /\ TreeIdle /\ TagIdle /\ GateIdle /\ ChunkIdle /\ ProductIdle
NextFind ==
    /\ \/ FindFirst
       \/ FindNext
       \/ FindClose
    /\ UNCHANGED <<maskVars, sanVars, aggVars, cmdVars, treeVars, tagVars, gateVars, chunkVars, productVars>>
SpecFind == InitFind /\ [][NextFind]_vars

\* the gateway as a whole, with the register as earlier operations left
\* it: one unlimited enumeration over a cursor of at most one record, or one
\* call of another operation
InitGate ==
    /\ GateInit
    /\ FindInit /\ findLimit = Infinity /\ Len(findRecords) <= 1
    /\ MaskIdle /\ SanIdle /\ AggIdle /\ CmdIdle /\ TreeIdle /\ TagIdle /\ ChunkIdle
    /\ ProductIdle
NextGate ==
    /\ \/ OpenStorageCall
       \/ OpenFileCall
       \/ CloseFileCall
       \/ GetFileSizeCall
       \/ ReadFileCall
       \/ CloseStorageCall
       \/ GetStorageInfoCall
       \/ (gateOp = "none" /\ FindFirst /\ UNCHANGED gateVars)
       \/ (gateOp = "none" /\ FindNext /\ UNCHANGED gateVars)
       \/ (gateOp = "none" /\ FindClose /\ UNCHANGED gateVars)
    /\ UNCHANGED <<maskVars, sanVars, aggVars, cmdVars, treeVars, tagVars, chunkVars, productVars>>
SpecGate == InitGate /\ [][NextGate]_vars

InitChunk ==
    /\ ChunkInit
    /\ MaskIdle /\ SanIdle /\ AggIdle /\ CmdIdle /\ TreeIdle /\ TagIdle /\ FindIdle /\ GateIdle
    /\ ProductIdle
NextChunk ==
    RequestRead /\ UNCHANGED <<maskVars, sanVars, aggVars, cmdVars, treeVars, tagVars,
                               findVars, gateVars, productVars>>
SpecChunk == InitChunk /\ [][NextChunk]_vars

InitProduct ==
    /\ ProductInit
    /\ MaskIdle /\ SanIdle /\ AggIdle /\ CmdIdle /\ TreeIdle /\ TagIdle /\ FindIdle /\ GateIdle
    /\ ChunkIdle
NextProduct ==
    DecodeProductInfo /\ UNCHANGED <<maskVars, sanVars, aggVars, cmdVars, treeVars, tagVars,
                                     findVars, gateVars, chunkVars>>
SpecProduct == InitProduct /\ [][NextProduct]_vars

(***************************************************************************)
(* Reference semantics of brace expansion, by bracket matching on the      *)
(* whole mask (not by re-scanning rewritten strings): a brace group is an  *)
(* opening brace together with the closing brace that matches it.          *)
(***************************************************************************)
\* match[i] = position of the brace matching the brace at i, 0 if none
RECURSIVE MatchScan(_, _, _, _)
MatchScan(m, i, stack, match) ==
    IF i > Len(m) THEN match
    ELSE IF m[i] = "{" THEN MatchScan(m, i + 1, <<i>> \o stack, match)
    ELSE IF m[i] = "}" /\ stack # <<>>
         THEN MatchScan(m, i + 1, Tail(stack),
                        [match EXCEPT ![Head(stack)] = i, ![i] = Head(stack)])
    ELSE MatchScan(m, i + 1, stack, match)

BraceMatch(m) == MatchScan(m, 1, <<>>, [i \in 1..Len(m) |-> 0])

\* x-major concatenation product of two sequences of strings
Cross(xs, ys) ==
    [k \in 1..(Len(xs) * Len(ys)) |->
        xs[((k - 1) \div Len(ys)) + 1] \o ys[((k - 1) % Len(ys)) + 1]]

Dedup(xs) == SetAddAll(<<>>, xs)

\* a comma of m[lo..hi] that lies inside no nested group of that range
TopLevelComma(m, match, lo, hi, j) ==
    /\ m[j] = ","
    /\ ~ \E a \in lo..(j - 1) : m[a] = "{" /\ match[a] > j

RECURSIVE RefSeq(_, _, _, _)
RECURSIVE RefAlternatives(_, _, _, _)
\* the alternatives of a group body m[lo..hi], each expanded, in order
RefAlternatives(m, match, lo, hi) ==
    IF \E j \in lo..hi : TopLevelComma(m, match, lo, hi, j)
    THEN LET j == CHOOSE j \in lo..hi :
                    /\ TopLevelComma(m, match, lo, hi, j)
                    /\ \A k \in lo..(j - 1) : ~ TopLevelComma(m, match, lo, hi, k)
         IN  RefSeq(m, match, lo, j - 1) \o RefAlternatives(m, match, j + 1, hi)
    ELSE RefSeq(m, match, lo, hi)

\* the expansions of m[lo..hi]: literals and groups concatenated in order
RefSeq(m, match, lo, hi) ==
    IF lo > hi THEN << <<>> >>
    ELSE IF m[lo] = "{" /\ match[lo] # 0
         THEN Cross(RefAlternatives(m, match, lo + 1, match[lo] - 1),
                    RefSeq(m, match, match[lo] + 1, hi))
         ELSE Cross(<< <<m[lo]>> >>, RefSeq(m, match, lo + 1, hi))

\* every matched group replaced by one of its alternatives
RefExpandEveryGroup(m) == Dedup(RefSeq(m, BraceMatch(m), 1, Len(m)))

\* position of the first opening brace that has no matching close, 0 if none
FirstUnmatchedOpen(m) ==
    LET match == BraceMatch(m)
        open == { i \in 1..Len(m) : m[i] = "{" /\ match[i] = 0 }
    IN  IF open = {} THEN 0 ELSE CHOOSE i \in open : \A j \in open : i <= j

\* as above, but the text from the first unmatched opening brace on is literal
RefExpandLiteralTail(m) ==
    LET p == FirstUnmatchedOpen(m) IN
    IF p = 0 THEN RefExpandEveryGroup(m)
    ELSE Dedup(Cross(RefSeq(m, BraceMatch(m), 1, p - 1), << SubSeq(m, p, Len(m)) >>))

NestedExampleExpansion ==
    << << "a", "b", "f" >>, << "a", "c", "d", "f" >>, << "a", "c", "e", "f" >> >>

\* C10 (as stated): for every mask over { } , and letters the result is the
\* duplicate-free first-encounter sequence obtained by replacing each brace
\* group by one of its alternatives (top-level commas only).
C10_EveryGroupExpanded ==
    maskPc = "expanded" => expanded = RefExpandEveryGroup(pattern)

\* C10 (amended): the same, except that the text from the first opening brace
\* without a matching close to the end of the mask is kept literal (groups in
\* it are not expanded); expand("a{b,c{d,e}}f") is exactly [abf, acdf, acef].
C10_ExpansionWithLiteralTail ==
    maskPc = "expanded" =>
        /\ expanded = RefExpandLiteralTail(pattern)
        /\ NoDuplicates(expanded)
        /\ (pattern = NestedExample => expanded = NestedExampleExpansion)

C10_Witness ==
    /\ maskPc = "expanded"
    /\ pattern = NestedExample
    /\ expanded = NestedExampleExpansion

\* C11: for every mask that contains an opening brace with no matching
\* closing brace, the result is the one-element sequence holding the mask
\* unchanged.
C11_UnmatchedBraceUnchanged ==
    (maskPc = "expanded" /\ FirstUnmatchedOpen(pattern) # 0) =>
        expanded = << pattern >>

(***************************************************************************)
(* Claims about the tree builder                                           *)
(***************************************************************************)
\* the nodes of a returned tree
RECURSIVE TreeNodes(_)
TreeNodes(node) ==
    { node } \cup UNION { TreeNodes(node.children[k]) : k \in 1..Len(node.children) }

Directories == { node \in TreeNodes(tree) : node.type = "directory" }
Leaves == { node \in TreeNodes(tree) : node.type = "file" }

\* C12: in every returned tree no two children of one directory node have
\* the same name.
C12_SiblingNamesDistinct ==
    treePc = "built" =>
        \A dir \in Directories : \A i, j \in 1..Len(dir.children) :
            dir.children[i].name = dir.children[j].name => i = j

Permuted(list, p) == [i \in 1..Len(list) |-> list[p[i]]]

\* the entries that are inserted have pairwise different normalized paths
DistinctPaths(list) ==
    \A i, j \in 1..Len(list) :
        (/\ normalizePathEntry(list[i].path) # <<>>
         /\ normalizePathEntry(list[i].path) = normalizePathEntry(list[j].path)) => i = j

\* C13: the tree built from any permutation of the entry list is the tree
\* built from the list (stated here for the lists whose entries have
\* pairwise different paths, the deduplicated lists the builder is given).
C13_OrderIndependent ==
    (treePc = "built" /\ DistinctPaths(treeEntries)) =>
        \A p \in Permutations(1..Len(treeEntries)) :
            buildFileTreeFromEntries(Permuted(treeEntries, p)) = tree

\* a is lexicographically at most b
LexLeq(a, b) ==
    \E k \in 0..Min(Len(a), Len(b)) :
        /\ SubSeq(a, 1, k) = SubSeq(b, 1, k)
        /\ \/ k = Len(a)
           \/ k < Len(b) /\ CollationRank(a[k + 1]) < CollationRank(b[k + 1])

\* C14: at every directory node of a returned tree all directory children
\* precede all file children, and within each group the names are in
\* non-decreasing lexicographic order.
C14_ChildrenSorted ==
    treePc = "built" =>
        \A dir \in Directories : \A i, j \in 1..Len(dir.children) :
            i < j =>
                /\ ~ (dir.children[i].type = "file" /\ dir.children[j].type = "directory")
                /\ dir.children[i].type = dir.children[j].type
                       => LexLeq(dir.children[i].name, dir.children[j].name)

C14_Witness ==
    /\ treePc = "built"
    /\ Len(treeEntries) = 3
    /\ treeEntries[1].path = << "b" >>
    /\ treeEntries[2].path = << "a", "/", "b" >>
    /\ treeEntries[3].path = << "a", "\\", "a" >>
    /\ Len(tree.children) = 2
    /\ tree.children[1].type = "directory"
    /\ tree.children[1].children[1].name = << "a" >>
    /\ tree.children[1].children[2].name = << "b" >>
    /\ tree.children[2].type = "file"

\* a pseudo entry: empty after trimming, the virtual-root marker, or a path
\* that ends in the pseudo-directory terminator
IsPseudoEntry(path) ==
    \/ Trim(path) = <<>>
    \/ Trim(path) = VfsRoot
    \/ EndsWith(Trim(path), << ":" >>)

\* the normalized path of an entry: separators and colons are one separator,
\* no leading, trailing or empty segment
NormalizedEntryPath(path) ==
    Join(NonEmptySegments(Split(Trim(path), { "/", "\\", ":" })), "/")

WithoutVfsRoot(path) ==
    IF StartsWith(path, VfsRoot \o << "/" >>)
    THEN SubSeq(path, Len(VfsRoot) + 2, Len(path))
    ELSE path

\* C15: the fullPath of every file leaf of a returned tree is the normalized
\* path, without the vfs-root segment, of an input entry that is not a pseudo
\* entry (the leaf carries the size of that entry).
C15_LeafPathsNormalized ==
    treePc = "built" =>
        \A leaf \in Leaves : \E i \in 1..Len(treeEntries) :
            /\ ~ IsPseudoEntry(treeEntries[i].path)
            /\ leaf.size = treeEntries[i].size
            /\ leaf.fullPath = WithoutVfsRoot(NormalizedEntryPath(treeEntries[i].path))

C15_Witness ==
    /\ treePc = "built"
    /\ Len(treeEntries) = 3
    /\ treeEntries[1].path = << "a", ":" >>
    /\ treeEntries[2].path = << "a", ":", "b" >>
    /\ treeEntries[3].path = << " ", "b" >>
    /\ Leaves = { [name |-> << "b" >>, type |-> "file", fullPath |-> << "a", "/", "b" >>,
                   size |-> 2, children |-> <<>>],
                  [name |-> << "b" >>, type |-> "file", fullPath |-> << "b" >>,
                   size |-> 3, children |-> <<>>] }

\* the file leaves an entry path stands for in the returned tree
LeavesOf(path) ==
    { leaf \in Leaves : leaf.fullPath = WithoutVfsRoot(NormalizedEntryPath(path)) }

\* C30: the tree builder drops exactly the pseudo entries: no leaf carries
\* the size of a pseudo entry, and every other entry has a file leaf at its
\* normalized path (a colon counting as a separator, so a:b and a/b name
\* the same leaf).
C30_ExactlyPseudoEntriesDropped ==
    treePc = "built" =>
        \A i \in 1..Len(treeEntries) :
            IF IsPseudoEntry(treeEntries[i].path)
            THEN \A leaf \in Leaves : leaf.size # treeEntries[i].size
            ELSE LeavesOf(treeEntries[i].path) # {}

(***************************************************************************)
(* Claims about the storage-info codec                                     *)
(***************************************************************************)
\* the tags of the untruncated buffer, as parseStorageTags reports them
FullTags ==
    [i \in 1..Len(tagList) |->
        [name |-> tagList[i].name, length |-> Len(tagList[i].name),
         value |-> tagList[i].value]]

\* offset behind the name of tag j in the untruncated buffer
RECURSIVE NameEndOf(_)
NameEndOf(j) ==
    IF j = 1 THEN TagHeaderSize + Len(tagList) * TagEntrySize + Len(tagList[1].name)
    ELSE NameEndOf(j - 1) + 1 + Len(tagList[j].name)

\* the entry and the name of tag j lie inside the truncated buffer
Decodable(j) ==
    /\ TagHeaderSize + j * TagEntrySize <= Len(tagBuffer)
    /\ NameEndOf(j) <= Len(tagBuffer)

\* C18: decoding a tag-list buffer truncated at any byte position raises no
\* fault and reads nothing outside the buffer; the result has at most the
\* declared count of tags and is made of exactly the tags that are decodable
\* before the first out-of-range offset.
C18_TruncatedTagsPartial ==
    tagPc = "parsed" =>
        /\ ~ tagResult.fault
        /\ Len(tagResult.tags) <= Len(tagList)
        /\ tagResult.tags = SubSeq(FullTags, 1, Len(tagResult.tags))
        /\ \A j \in 1..Len(tagList) :
              j <= Len(tagResult.tags) <=> \A m \in 1..j : Decodable(m)

C18_Witness ==
    /\ tagPc = "parsed"
    /\ Len(tagList) = 2
    /\ tagList[1].name = << "a", "b" >>
    /\ tagList[2].name = << "a" >>
    /\ Len(tagBuffer) = Len(EncodeTags(tagList)) - 2
    /\ tagResult.tags = << [name |-> << "a", "b" >>, length |-> 2, value |-> TagValueAt(1)] >>

(***************************************************************************)
(* Claims about sanitizeRelativePath                                       *)
(***************************************************************************)
IsStrictPrefix(xs, ys) == Len(xs) < Len(ys) /\ SubSeq(ys, 1, Len(xs)) = xs

\* C9: for every entry path the sanitised path is non-empty and relative, has
\* no empty, `.` or `..` segment, and resolves strictly inside the output
\* directory.
C9_SanitizedStaysInside ==
    sanPc = "sanitized" =>
        LET segments == Split(relativePath, PlatformSeparators(pathSep)) IN
        /\ Len(relativePath) > 0
        /\ relativePath[1] \notin PlatformSeparators(pathSep)
        /\ \A i \in 1..Len(segments) :
              /\ segments[i] # <<>>
              /\ segments[i] # << "." >>
              /\ segments[i] # << ".", "." >>
        /\ IsStrictPrefix(OutputDir, PathResolve(OutputDir, relativePath, pathSep))

C9_Witness ==
    /\ sanPc = "sanitized"
    /\ entryPath = TraversalExample
    /\ relativePath = ParentPlaceholder \o << "/" >> \o ParentPlaceholder
                      \o << "/", "e", "t", "c", "/", "p", "a", "s", "s", "w", "d" >>

(***************************************************************************)
(* Claims about the aggregation                                            *)
(***************************************************************************)
\* the records with a non-empty name among the first ones of a cursor, up to
\* limit of them: what one limited enumeration shows to the aggregation
RECURSIVE NamedPrefix(_, _)
NamedPrefix(records, limit) ==
    IF records = <<>> \/ (IsFinite(limit) /\ limit <= 0) THEN <<>>
    ELSE IF Len(Head(records).path) = 0 THEN NamedPrefix(Tail(records), limit)
    ELSE <<Head(records)>> \o
         NamedPrefix(Tail(records), IF IsFinite(limit) THEN limit - 1 ELSE limit)

\* every entry seen by the aggregation, in mask order, then cursor order
RECURSIVE SeenEntries(_, _)
SeenEntries(queries, engine) ==
    IF queries = <<>> THEN <<>>
    ELSE NamedPrefix(engine[Head(queries).mask], Head(queries).limit)
         \o SeenEntries(Tail(queries), engine)

\* the first entry of every path, in order of first appearance
RECURSIVE FirstByPath(_, _)
FirstByPath(seen, known) ==
    IF seen = <<>> THEN <<>>
    ELSE IF Head(seen).path \in known THEN FirstByPath(Tail(seen), known)
    ELSE <<Head(seen)>> \o FirstByPath(Tail(seen), known \cup { Head(seen).path })

IsPrefix(xs, ys) == Len(xs) <= Len(ys) /\ SubSeq(ys, 1, Len(xs)) = xs

AggDone == aggPc = "done" /\ ~ aggResult.thrown

\* C3: for any masks, cursor contents and finite limit N the aggregation
\* returns at most N entries, no two with the same path, in first-seen order
\* (mask order, then cursor order), each the first entry seen for its path.
C3_AtMostLimitFirstSeen ==
    AggDone =>
        LET found == aggResult.entries
            asked == [k \in 1..Len(aggResult.queries) |-> aggResult.queries[k].mask]
        IN  /\ IsFinite(aggLimit) => Len(found) <= aggLimit
            /\ \A i, j \in 1..Len(found) : found[i].path = found[j].path => i = j
            /\ IsPrefix(asked, expandMaskPatterns(aggMask))
            /\ found = FirstByPath(SeenEntries(aggResult.queries, cursors), {})

\* a finite limit is reached over two masks while a path was seen twice
C3_Witness ==
    /\ AggDone
    /\ aggLimit = 2
    /\ Len(aggResult.entries) = 2
    /\ Len(aggResult.queries) = 2
    /\ Len(SeenEntries(aggResult.queries, cursors)) > 2

\* the distinct paths the expanded masks match in the storage
MatchedPaths ==
    LET masks == expandMaskPatterns(aggMask) IN
    UNION { { cursors[masks[k]][i].path : i \in 1..Len(cursors[masks[k]]) } :
            k \in 1..Len(masks) } \ { <<>> }

\* C4: with a finite limit N and at least N distinct matching paths the
\* aggregation returns exactly N entries, also when a later mask's cursor
\* yields paths an earlier mask already returned.
C4_LimitFilledWhenEnoughMatches ==
    (AggDone /\ IsFinite(aggLimit) /\ Cardinality(MatchedPaths) >= aggLimit)
        => Len(aggResult.entries) = aggLimit

(***************************************************************************)
(* Claims about the commands                                               *)
(***************************************************************************)
Opens == CountOp(trace, "openStorage")
Closes == CountOp(trace, "closeStorage")
KindsOf(kinds) == { i \in 1..Len(outcomes) : outcomes[i].kind \in kinds }

\* C17: with limit 0 the aggregation returns an empty entry list and makes
\* no enumeration call on the gateway (hence no find-first, find-next or
\* find-close call), for every mask, even when the engine would fault.
C17_LimitZeroNoEnumeration ==
    (aggPc = "done" /\ aggLimit = 0) =>
        /\ ~ aggResult.thrown
        /\ aggResult.entries = <<>>
        /\ aggResult.queries = <<>>

C17_Witness ==
    /\ aggPc = "done"
    /\ aggLimit = 0
    /\ aggMask = MaskXYZ
    /\ Len(cursors[MaskX]) = MaxCursor
    /\ aggResult.queries = <<>>


\* the distinct paths the enumeration of the q-th requested mask returned
ListedPaths(q) ==
    LET asked == aggResult.queries[q]
        listed == listStorageFiles(cursors[asked.mask], asked.limit, 0).entries
    IN  { listed[i].path : i \in 1..Len(listed) }

\* the budget left when the q-th mask comes up: the limit less the distinct
\* entries the earlier masks brought
BudgetBefore(q) == aggLimit - Cardinality(UNION { ListedPaths(p) : p \in 1..(q - 1) })

\* C28: the masks are requested in expansion order, each with a limit equal
\* to the budget remaining at that moment (never the original limit once
\* entries were merged), no mask is requested with a budget of zero, and the
\* loop leaves masks out only when the budget is zero.
C28_RemainingBudgetRequested ==
    (aggPc = "done" /\ IsFinite(aggLimit)) =>
        LET asked == aggResult.queries
            masks == expandMaskPatterns(aggMask)
        IN  /\ Len(asked) <= Len(masks)
            /\ \A q \in 1..Len(asked) :
                  /\ asked[q].mask = masks[q]
                  /\ asked[q].limit = BudgetBefore(q)
                  /\ asked[q].limit >= 1
            /\ (~ aggResult.thrown /\ Len(asked) < Len(masks))
                  => BudgetBefore(Len(asked) + 1) = 0

\* x brings one entry, y the second one with the one left of the budget,
\* and z, whose cursor has records, is never requested
C28_Witness ==
    /\ aggPc = "done"
    /\ aggMask = MaskXYZ
    /\ aggLimit = 2
    /\ ~ aggResult.thrown
    /\ Len(aggResult.queries) = 2
    /\ aggResult.queries[2].limit = 1
    /\ Len(aggResult.entries) = 2
    /\ cursors[MaskZ] # <<>>

\* C1: in both commands, once openStorage has returned a handle, closeStorage
\* is called on that handle exactly once before the command returns, on every
\* exit path; when openStorage fails, closeStorage is never called.
C1_StorageClosedExactlyOnce ==
    /\ Opens <= 1
    /\ Closes = Count(trace, "closeStorage", StorageHandle)
    /\ Closes <= Opens
    /\ (storageAddress = NullHandle) = (Opens = 0)
    /\ Closes = 1 => pc = "done"
    /\ pc = "done" => Closes = Opens

\* the extract command returns after a read fault on an entry, storage closed
C1_Witness ==
    /\ cmd = "extract" /\ pc = "done"
    /\ KindsOf({ "readFault" }) # {}
    /\ Opens = 1 /\ Closes = 1

AfterOpenKinds ==
    { "sizeFault", "dirFault", "skipped", "destError", "readFault", "writeFault",
      "incomplete", "extracted" }

\* C2: every file handle returned by a successful openFile is passed to
\* closeFile exactly once before the next entry is processed, whatever
\* happens in between; closeFile is never called for an entry whose openFile
\* failed.
C2_FileClosedExactlyOnce ==
    /\ Count(trace, "closeFile", NullHandle) = 0
    /\ pc \in { "entry", "finally", "done" } => fileHandle = NullHandle
    /\ \A i \in 1..Len(entries) :
          LET opens == Count(trace, "openFile", i)
              closes == Count(trace, "closeFile", i)
          IN  /\ opens <= 1
              /\ closes <= opens
              /\ (i < idx \/ pc \in { "finally", "done" }) => closes = opens
              /\ i <= Len(outcomes) =>
                    /\ outcomes[i].kind \in { "openFault", "pseudo" } => opens = 0
                    /\ outcomes[i].kind \in AfterOpenKinds => opens = 1 /\ closes = 1

\* the second entry is reached after the first was skipped and closed
C2_Witness ==
    /\ pc = "opened" /\ idx = 2
    /\ outcomes[1].kind = "skipped"
    /\ Count(trace, "openFile", 1) = 1 /\ Count(trace, "closeFile", 1) = 1

\* the native find call named by enumFault was made and reported its fault
FindFirstFaultRaised ==
    /\ enumFault.mask >= 1 /\ enumFault.at = 1
    /\ Len(aggResult.queries) >= enumFault.mask

FindNextFaultRaised ==
    /\ enumFault.mask >= 1 /\ enumFault.at = 2
    /\ Len(aggResult.queries) >= enumFault.mask
    /\ LET q == aggResult.queries[enumFault.mask] IN
          /\ Len(cursors[q.mask]) >= 1
          /\ \/ Len(cursors[q.mask][1].path) = 0
             \/ ~ IsFinite(q.limit)
             \/ q.limit >= 2

\* C5: a fault while enumerating any one expanded mask aborts the whole
\* aggregation: no entry list is returned, no further mask is enumerated,
\* nothing is emitted, no file is opened, the result code is non-zero and the
\* storage handle is still closed.
C5_EnumerationFaultAborts ==
    (FindFirstFaultRaised \/ FindNextFaultRaised \/ aggResult.thrown) =>
        /\ aggResult.thrown
        /\ aggResult.entries = <<>> /\ entries = <<>>
        /\ Len(aggResult.queries) = enumFault.mask
        /\ ~ emitted
        /\ CountOp(trace, "openFile") = 0
        /\ exitCode # 0
        /\ pc \in { "finally", "done" }
        /\ pc = "done" => Closes = 1

\* the first mask's cursor, holding entries, faults in the extract command
C5_Witness ==
    /\ cmd = "extract" /\ pc = "done"
    /\ aggResult.thrown
    /\ enumFault = [mask |-> 1, at |-> 2]
    /\ Len(cursors[MaskX]) = 2
    /\ Closes = 1

FaultKinds ==
    { "openFault", "sizeFault", "dirFault", "destError", "readFault", "writeFault",
      "incomplete" }

\* C6: a fault on one entry sets the result code non-zero and does not stop
\* the batch: every later entry is still attempted, in order.
C6_EntryFaultContinues ==
    /\ KindsOf(FaultKinds) # {} => exitCode # 0
    /\ (pc = "closeFile" /\ outcome \in FaultKinds) => exitCode # 0
    /\ Len(outcomes) <= Len(entries)
    /\ \A i \in 1..Len(outcomes) : outcomes[i].path = entries[i].path
    /\ pc \in { "entry", "opened", "stream", "eof", "closeFile" } =>
          Len(outcomes) = idx - 1
    /\ (cmd = "extract" /\ pc \in { "finally", "done" } /\ Len(entries) > 0) =>
          Len(outcomes) = Len(entries)

\* the entry after a faulted one was extracted
C6_Witness ==
    /\ pc = "done"
    /\ Len(outcomes) = 2
    /\ outcomes[1].kind = "openFault"
    /\ outcomes[2].kind = "extracted"
    /\ exitCode # 0

StreamKinds == { "extracted", "incomplete", "readFault", "writeFault" }

\* C7: an entry is counted as extracted if and only if its remaining-byte
\* counter reaches zero, and then the bytes written to the destination equal
\* the size the get-size query returned, for every size.
C7_ExtractedIffComplete ==
    /\ extractedCount = Cardinality(KindsOf({ "extracted" }))
                        + (IF pc = "closeFile" /\ outcome = "extracted" THEN 1 ELSE 0)
    /\ (pc = "closeFile" /\ outcome \in StreamKinds) =>
          /\ (outcome = "extracted") = (remaining = 0)
          /\ remaining >= 0
          /\ written = fileSize - remaining
          /\ fs[dest] = [owner |-> idx, len |-> written]
          /\ outcome = "extracted" => fs[dest].len = fileSize

\* an entry one byte longer than two chunks was extracted
C7_Witness ==
    /\ pc = "closeFile" /\ outcome = "extracted"
    /\ chunkSize = MaxChunk /\ fileSize = 2 * chunkSize + 1
    /\ written = fileSize

\* C8: with overwrite=false an entry whose destination exists leaves the
\* existing file unmodified, is reported as skipped, is not counted as
\* extracted, sets no result code, and its file handle is still closed before
\* the next entry.
C8_SkipState ==
    /\ (cmd = "extract" /\ ~ overwrite) => \A p \in existing : fs[p] = ExistingFile
    /\ (pc = "closeFile" /\ outcome = "skipped") =>
          /\ ~ overwrite
          /\ dest \in DOMAIN fs /\ fs[dest].owner # idx
          /\ fileHandle = idx
    /\ (pc = "closeFile" /\ ~ overwrite /\ dest # <<>> /\ outcome \notin { "dirFault", "destError" }
          /\ dest \in DOMAIN fs /\ fs[dest].owner # idx) => outcome = "skipped"

C8_SkipStep ==
    /\ (pc = "opened" /\ outcome' = "skipped") =>
          /\ fs' = fs /\ exitCode' = exitCode /\ extractedCount' = extractedCount
          /\ fileHandle' = fileHandle /\ pc' = "closeFile"
    /\ (pc = "closeFile" /\ outcome = "skipped") =>
          /\ trace' = Append(trace, Event("closeFile", idx))
          /\ outcomes' = Append(outcomes, [path |-> entries[idx].path, kind |-> "skipped"])
          /\ fs' = fs /\ exitCode' = exitCode /\ extractedCount' = extractedCount
          /\ idx' = idx + 1 /\ pc' = "entry"

C8_SkipOnExists == [] C8_SkipState /\ [][C8_SkipStep]_vars

\* an entry whose destination existed before the command was skipped
C8_Witness ==
    /\ pc = "closeFile" /\ outcome = "skipped"
    /\ dest \in existing /\ fs[dest] = ExistingFile
    /\ exitCode = 0 /\ extractedCount = 0

\* C16: every fault raised by a native operation during a list or extract
\* command (open, query, enumerate, read, get-size, close-file,
\* close-storage) gives a non-zero process result code when the command
\* returns.
C16_FaultGivesNonZeroExit ==
    (pc = "done" /\ faulted) => exitCode # 0

\* the file handles open after the first n calls of the trace
OpenFilesAfter(n) ==
    CountOp(SubSeq(trace, 1, n), "openFile") - CountOp(SubSeq(trace, 1, n), "closeFile")

CallsOf(op) == { n \in 1..Len(trace) : trace[n].op = op }

\* the arguments of the calls of one gateway operation, in call order
ArgsOf(op) == LET calls == SelectSeq(trace, LAMBDA e : e.op = op)
              IN  [k \in 1..Len(calls) |-> calls[k].arg]

\* C29: in the extract command every enumeration call has returned before
\* the first openFile, the masks are enumerated in expansion order, and the
\* entries are processed in aggregation order, one at a time: the i-th
\* entry settled is the i-th entry aggregated, files are opened in that
\* order, and a file is closed before the next one is opened.
C29_EnumerateThenExtractInOrder ==
    cmd = "extract" =>
        LET masks == expandMaskPatterns(aggMask)
            asked == ArgsOf("listStorageFiles")
            opened == ArgsOf("openFile")
        IN  /\ \A n \in CallsOf("listStorageFiles"), m \in CallsOf("openFile") : n < m
            /\ Len(asked) <= Len(masks)
            /\ \A k \in 1..Len(asked) : asked[k] = masks[k]
            /\ CallsOf("openFile") # {} => entries = aggResult.entries
            /\ \A k \in 1..Len(opened) :
                  /\ opened[k] \in 1..Len(entries)
                  /\ k > 1 => opened[k - 1] < opened[k]
            /\ Len(outcomes) <= Len(entries)
            /\ \A i \in 1..Len(outcomes) : outcomes[i].path = entries[i].path
            /\ \A n \in CallsOf("openFile"), m \in CallsOf("openFile") :
                  n < m => \E k \in CallsOf("closeFile") : n < k /\ k < m

\* both masks were enumerated, then the two entries with different paths
\* were extracted one after the other
C29_Witness ==
    /\ cmd = "extract"
    /\ pc = "done"
    /\ ArgsOf("listStorageFiles") = << MaskX, MaskY >>
    /\ ArgsOf("openFile") = << 1, 2 >>
    /\ Len(outcomes) = 2
    /\ outcomes[1].path # outcomes[2].path
    /\ outcomes[1].kind = "extracted"

(***************************************************************************)
(* Claims about the find protocol of CascLib.listStorageFiles              *)
(***************************************************************************)
FindCalls(name) == Cardinality({ i \in 1..Len(nativeCalls) : nativeCalls[i] = name })

FindFinished == findPc \in { "returned", "thrown" }

\* C20: every cursor that find-first returned valid is released by exactly
\* one find-close call on every path (exhaustion, limit reached, find-next
\* fault) and no find-close is made without a valid cursor; a find-close
\* failure after a fault-free iteration is raised as a fault; a find-close
\* failure while a find-next fault propagates leaves that fault in place.
C20_CursorClosedOnce ==
    /\ FindCalls("CascFindClose") <= 1
    /\ isInvalidHandle(findHandle) => FindCalls("CascFindClose") = 0
    /\ FindFinished =>
          /\ ~ isInvalidHandle(findHandle) =>
                /\ FindCalls("CascFindClose") = 1
                /\ nativeCalls[Len(nativeCalls)] = "CascFindClose"
          /\ (closeFailed /\ ~ iterationFailed) =>
                findPc = "thrown" /\ findThrown = "CascFindClose"
          /\ iterationFailed =>
                findPc = "thrown" /\ findThrown = "CascFindNextFile"

\* a find-next fault is propagating and find-close fails as well
C20_Witness ==
    /\ findPc = "thrown"
    /\ iterationFailed
    /\ closeFailed
    /\ findThrown = "CascFindNextFile"
    /\ nativeCalls = << "CascFindFirstFile", "CascFindNextFile", "CascFindNextFile",
                        "CascFindClose" >>

\* the codes that mean zero matches: no more files, file not found, path
\* not found, no error
NoMatchCodes ==
    { ERROR_NO_MORE_FILES, ERROR_NO_MORE_FILES_WIN32, ERROR_FILE_NOT_FOUND,
      ERROR_PATH_NOT_FOUND, NoError }

\* find-first was called and returned an invalid cursor
FindFirstInvalid ==
    /\ FindCalls("CascFindFirstFile") = 1
    /\ isInvalidHandle(findHandle)

\* C21: when find-first returns an invalid cursor (0 or all-ones) the last
\* error code decides: the codes for no-more-files, file-not-found,
\* path-not-found and no-error give an empty result without a fault and
\* without a find-close call; every other code raises a fault.
C21_InvalidCursorResolved ==
    FindFirstInvalid =>
        LET errorCode == engineLog[Len(engineLog)].code IN
        /\ engineLog[Len(engineLog)].call = "GetCascError"
        /\ nativeCalls = << "CascFindFirstFile" >>
        /\ errorCode \in NoMatchCodes =>
              findPc = "returned" /\ findEntries = <<>> /\ findThrown = "none"
        /\ errorCode \notin NoMatchCodes =>
              findPc = "thrown" /\ findThrown = "CascFindFirstFile"

\* the all-ones cursor with code 0 is an empty result
C21_Witness ==
    /\ FindFirstInvalid
    /\ findHandle = AllOnesHandle
    /\ engineLog[Len(engineLog)].code = NoError
    /\ findPc = "returned"

\* C22: a find-next failure is resolved by the same rule: the codes for
\* no-more-files, file-not-found, path-not-found and no-error end the
\* iteration normally with the entries collected so far, only other codes
\* raise a fault.
C22_FindNextSameRule ==
    \A i \in 1..Len(engineLog) :
        (engineLog[i].call = "CascFindNextFile" /\ ~ engineLog[i].ok) =>
            (engineLog[i + 1].code \in NoMatchCodes <=> ~ iterationFailed)

\* C24: every find-first call is immediately preceded by the call that
\* resets the last-error register to 0, so the code read after an invalid
\* cursor was written by that find-first call or is 0, whatever the register
\* held before.
C24_RegisterClearedBeforeFindFirst ==
    \A i \in 1..Len(engineLog) :
        engineLog[i].call = "CascFindFirstFile" =>
            /\ i > 1
            /\ engineLog[i - 1].call = "SetCascError"
            /\ engineLog[i - 1].code = 0
            /\ ~ engineLog[i].ok =>
                  /\ engineLog[i + 1].call = "GetCascError"
                  /\ engineLog[i + 1].code = engineLog[i].code
                  /\ engineLog[i].set \/ engineLog[i + 1].code = 0

\* a stale code was in the register, find-first failed without writing it
C24_Witness ==
    /\ staleError = ERROR_HANDLE_EOF
    /\ FindFirstInvalid
    /\ ~ engineLog[2].set
    /\ engineLog[3].code = 0
    /\ findPc = "returned"

(***************************************************************************)
(* Claims about the gateway operations.                                    *)
(***************************************************************************)
EngineCalls ==
    { "CascOpenStorage", "CascCloseStorage", "CascGetStorageInfo", "CascOpenFile",
      "CascCloseFile", "CascGetFileSize64", "CascReadFile", "CascFindFirstFile",
      "CascFindNextFile", "CascFindClose" }

\* the position of the last native interaction before position i that is
\* not a pointer helper of the FFI layer, 0 if there is none
PrecedingCall(log, i) ==
    LET before == { j \in 1..(i - 1) : log[j].call \notin PointerHelpers } IN
    IF before = {} THEN 0 ELSE CHOOSE j \in before : \A k \in before : k <= j

\* C23: in every gateway operation, each read of the last error code comes
\* directly after the engine call it reports on (only pointer helpers of
\* the FFI layer in between, no other engine call, no reset), it returns the
\* register as that call left it, and a fault names that call.
C23_LookupFollowsFailingCall ==
    /\ \A i \in 1..Len(engineLog) :
          engineLog[i].call = "GetCascError" =>
             LET j == PrecedingCall(engineLog, i) IN
             /\ j > 0
             /\ engineLog[j].call \in EngineCalls
             /\ engineLog[i].code = engineLog[j].code
    /\ (findPc = "start" /\ gateThrown # "none") =>
          /\ engineLog[Len(engineLog)].call = "GetCascError"
          /\ engineLog[PrecedingCall(engineLog, Len(engineLog))].call = gateThrown
    /\ (findPc = "thrown") =>
          \E i \in 1..Len(engineLog) :
             /\ engineLog[i].call = "GetCascError"
             /\ engineLog[PrecedingCall(engineLog, i)].call = findThrown

\* the second storage-info call failed, the two pointer helpers ran, then
\* the error code was read
C23_Witness ==
    /\ findPc = "start"
    /\ gateOp = "getStorageInfo"
    /\ gateThrown = "CascGetStorageInfo"
    /\ gateInfo.filled
    /\ Len(engineLog) = 7
    /\ ~ engineLog[4].ok
    /\ engineLog[4].set
    /\ engineLog[7].call = "GetCascError"
    /\ engineLog[7].code = ERROR_FILE_NOT_FOUND

\* C25: for open storage and open file alike, a handle of 0 or all-ones is
\* a failure even when the native call reported success: no such handle is
\* ever returned to the caller.
C25_InvalidHandleNeverReturned ==
    (findPc = "start" /\ gateOp \in { "openStorage", "openFile" } /\ gateThrown = "none")
       => ~ isInvalidHandle(gateValue)

\* the native storage-info calls of the operation that ran last
InfoCalls == SelectSeq(engineLog, LAMBDA e : e.call = "CascGetStorageInfo")

\* C26: in the two-phase storage-info query, a reported size that is not
\* positive raises a fault and the fill call is never made; otherwise the
\* fill call gets a buffer of exactly the reported size, and a failing fill
\* call raises a fault and nothing is decoded.
C26_TwoPhaseQuery ==
    (findPc = "start" /\ gateOp = "getStorageInfo") =>
       /\ gateInfo.required <= 0 =>
             /\ gateThrown = "CascGetStorageInfo"
             /\ ~ gateInfo.filled
             /\ Len(InfoCalls) = 1
             /\ gateInfo.decoded = 0
       /\ gateInfo.required > 0 =>
             /\ gateInfo.filled
             /\ Len(InfoCalls) = 2
             /\ gateInfo.passed = gateInfo.required
             /\ ~ InfoCalls[2].ok =>
                   /\ gateThrown = "CascGetStorageInfo"
                   /\ gateInfo.decoded = 0
                   /\ gateValue = 0
             /\ InfoCalls[2].ok => gateThrown = "none"

\* the size query reported the largest size and the fill call failed
C26_Witness ==
    /\ findPc = "start"
    /\ gateOp = "getStorageInfo"
    /\ gateInfo.required = MaxInfoSize
    /\ gateInfo.passed = MaxInfoSize
    /\ Len(InfoCalls) = 2
    /\ ~ InfoCalls[2].ok
    /\ gateThrown = "CascGetStorageInfo"

\* the storage-info query that ran last returned a decoded value
InfoDecoded == findPc = "start" /\ gateOp = "getStorageInfo" /\ gateThrown = "none"

\* C27 as stated: after a successful query the decoded range has length
\* min(written, buffer size) for every written count from 0 upwards.
C27_DecodedLengthIsMin ==
    (InfoDecoded /\ gateInfo.written >= 0)
       => gateInfo.decoded = Min(gateInfo.written, gateInfo.passed)

\* C27: after a successful query the decoded range has length
\* min(written, buffer size) for every written count from 1 up to and beyond
\* the buffer size; for a written count of 0 or less the whole buffer is
\* decoded.
C27_DecodedLength ==
    InfoDecoded =>
       /\ gateInfo.written >= 1
             => gateInfo.decoded = Min(gateInfo.written, gateInfo.passed)
       /\ gateInfo.written <= 0 => gateInfo.decoded = gateInfo.passed

\* the engine wrote less than the buffer holds and only that much is decoded
C27_Witness ==
    /\ InfoDecoded
    /\ gateInfo.passed = MaxInfoSize
    /\ gateInfo.written = MaxInfoSize - 1
    /\ gateInfo.decoded = MaxInfoSize - 1

(***************************************************************************)
(* Further claims about the extract command                                *)
(***************************************************************************)
\* the extraction loop is at an entry whose path ends in a colon
AtPseudoEntry ==
    /\ cmd = "extract" /\ pc = "entry" /\ idx <= Len(entries)
    /\ entries[idx].path[Len(entries[idx].path)] = ":"

\* C31 (step): the step taken at an entry whose path ends in a colon goes to
\* the next entry and nothing else: no gateway call, no change to the files
\* on disk, to the count of extracted entries or to the result code.
C31_PseudoStep ==
    AtPseudoEntry =>
        /\ idx' = idx + 1 /\ pc' = "entry"
        /\ trace' = trace /\ fileHandle' = NullHandle
        /\ fs' = fs /\ extractedCount' = extractedCount
        /\ exitCode' = exitCode /\ faulted' = faulted

\* C31 (state): no openFile or closeFile call was ever made for such an
\* entry, and no file on disk was written by it.
C31_PseudoState ==
    cmd = "extract" =>
        \A i \in 1..Len(entries) :
            entries[i].path[Len(entries[i].path)] = ":" =>
                /\ Count(trace, "openFile", i) = 0
                /\ Count(trace, "closeFile", i) = 0
                /\ \A p \in DOMAIN fs : fs[p].owner # i

\* C31: in extractEntries an entry whose path ends in a colon is skipped
\* without any native call, creates no destination file and is counted
\* neither as extracted nor as a failure.
C31_PseudoEntrySkipped == [] C31_PseudoState /\ [][C31_PseudoStep]_vars

\* a batch of a pseudo-directory marker and a plain file ended with the
\* file extracted, one file opened and no failure
C31_Witness ==
    /\ cmd = "extract" /\ pc = "done"
    /\ Len(entries) = 2
    /\ entries[1].path = PathPseudo
    /\ Len(outcomes) = 2
    /\ CountOp(trace, "openFile") = 1
    /\ extractedCount = 1
    /\ exitCode = 0

(***************************************************************************)
(* Further claims about the gateway operations                             *)
(***************************************************************************)
\* the native read of the readFile call that ran last
NativeRead == engineLog[1]

\* readFile ran last
ReadFileRan == findPc = "start" /\ gateOp = "readFile"

WithinConfiguredChunk(n) ==
    CASE chunkValue.kind = "beyond" -> TRUE
      [] chunkValue.kind = "number" /\ chunkValue.n > 0 -> n <= chunkValue.n
      [] OTHER -> n <= DEFAULT_CHUNK_SIZE

\* C33 as stated: the bytes requested in one read are at most the
\* configured chunk size, at most the remaining byte count, and below
\* 2^31 - 256.
C33_ReadRequestBelowCap ==
    chunkPc = "requested" =>
        /\ WithinConfiguredChunk(chunkToRead)
        /\ chunkToRead <= chunkLeft
        /\ chunkToRead < 2147483647 - 255

\* C33: the bytes requested in one read are at most the configured chunk
\* size, at most the remaining byte count, and at most 2^31 - 256, for every
\* chunk size option (values beyond 2^31 included).
C33_ReadRequestWithinCap ==
    chunkPc = "requested" =>
        /\ WithinConfiguredChunk(chunkToRead)
        /\ chunkToRead <= chunkLeft
        /\ chunkToRead <= 2147483647 - 255

\* a chunk size beyond 2^31 and more bytes left than the cap: the cap is
\* what is requested
C33_Witness ==
    /\ chunkPc = "requested"
    /\ chunkValue.kind = "beyond"
    /\ chunkLeft = ChunkCeiling
    /\ chunkParsed = ChunkCeiling
    /\ chunkToRead = 2147483647 - 255

(***************************************************************************)
(* Claims about the product info                                           *)
(***************************************************************************)
\* the NUL-terminated string at offset 0 of a field of at most 0x1c bytes
NameField == SubSeq(productBuffer, 1, Min(28, Len(productBuffer)))
NameFieldString ==
    LET ends == { i \in 1..Len(NameField) : NameField[i] = 0 }
        last == IF ends = {} THEN Len(NameField)
                ELSE (CHOOSE i \in ends : \A j \in ends : i <= j) - 1
    IN  [k \in 1..last |-> IF NameField[k] = 97 THEN "a" ELSE NUL]

\* C34: for every product-info buffer the decoded codeName is the
\* NUL-terminated string at offset 0, never longer than 0x1c bytes, and the
\* build number is the unsigned 32-bit little-endian value at offset 0x1c,
\* or 0 when the buffer is shorter than 0x20 bytes.
C34_ProductInfoDecoded ==
    productPc = "decoded" =>
        /\ productInfo.codeName = NameFieldString
        /\ Len(productInfo.codeName) <= 28
        /\ productInfo.buildNumber =
              IF Len(productBuffer) >= 32
              THEN productBuffer[29] + 256 * productBuffer[30]
                   + 65536 * productBuffer[31] + 16777216 * productBuffer[32]
              ELSE 0

(***************************************************************************)
(* Further claims about the find protocol                                  *)
(***************************************************************************)
\* the records with a name among the first n records of the cursor
NamedRecords(n) == SelectSeq(SubSeq(findRecords, 1, n), LAMBDA r : r.path # <<>>)

\* C35: listStorageFiles with limit L never holds more than max(0, L)
\* entries and never an entry with an empty path: the entries are the named
\* records among those the cursor has visited, so a record without a name
\* is skipped and does not count toward the limit.
C35_AtMostLimitNamedEntries ==
    findPc # "off" =>
        /\ IsFinite(findLimit) =>
              Len(findEntries) <= (IF findLimit > 0 THEN findLimit ELSE 0)
        /\ \A i \in 1..Len(findEntries) : findEntries[i].path # <<>>
        /\ findEntries = NamedRecords(findPos)

\* limit 1 over a cursor of a record without a name and a named one: the
\* named record is returned
C35_Witness ==
    /\ findPc = "returned"
    /\ findLimit = 1
    /\ Len(findRecords) = 2
    /\ findRecords[1].path = <<>>
    /\ findRecords[2].path # <<>>
    /\ findEntries = << findRecords[2] >>
    /\ findPos = 2

(***************************************************************************)
(* Claims about the read loop of extractEntries                            *)
(***************************************************************************)
\* the read loop is about to request bytes
InReadLoop == pc = "stream" /\ remaining > 0

\* C36 (step): an iteration of the read loop ends the loop or strictly
\* decreases the remaining counter.
C36_IterationStep == InReadLoop => (pc' # "stream" \/ remaining' < remaining)

\* C36: for every file size and chunk size, with reads that return between
\* 0 and the requested number of bytes, the remaining counter never becomes
\* negative, every iteration of the read loop ends the loop or strictly
\* decreases the counter, and the loop is always left.
C36_ReadLoopTerminates ==
    /\ [] (remaining >= 0)
    /\ [][C36_IterationStep]_vars
    /\ (pc = "stream" ~> pc = "closeFile")

\* the largest file with the smallest chunk size, read to its last byte
C36_Witness ==
    /\ pc = "stream"
    /\ fileSize = MaxFileSize
    /\ chunkSize = 1
    /\ remaining = 0
    /\ written = MaxFileSize
    /\ gateOp = "readFile"

\* the outcomes of an entry whose streaming did not reach its last byte
UnfinishedKinds == { "incomplete", "readFault", "writeFault" }

\* the entries settled as extracted
ExtractedEntries == { i \in 1..Len(outcomes) : outcomes[i].kind = "extracted" }

\* C38: when the extraction of an entry ends incomplete, or a read or a write
\* faults mid-stream, the destination file is closed and stays on disk
\* holding exactly the bytes written so far (the reported size less the
\* remaining counter), and the entry is not counted as extracted.
C38_UnfinishedFileKept ==
    (outcome \in UnfinishedKinds) =>
        /\ ~ fd
        /\ dest \in DOMAIN fs
        /\ fs[dest].len = written
        /\ fs[dest].len = fileSize - remaining
        /\ remaining > 0
        /\ extractedCount = Cardinality(ExtractedEntries)

\* the command ended after a read faulted behind the first bytes of the
\* largest file: the bytes are on disk, the file is not counted
C38_Witness ==
    /\ pc = "done"
    /\ outcome = "readFault"
    /\ fileSize = MaxFileSize
    /\ written = MaxChunk
    /\ fs[dest].len = MaxChunk
    /\ extractedCount = 0
    /\ exitCode = FailureExitCode

\* the native read of the iteration just made and the bytes it transferred
ReadNow == engineLog'[1]
BytesNow == gateInfo'.written

\* C40 (step): in an iteration of the read loop, readFile raises a fault
\* only if the native read reported failure with 0 bytes; a native read
\* that reported failure after transferring one or more bytes is returned
\* as that byte count, and the loop writes the bytes, counts them off the
\* remaining counter and goes on (unless the write itself faults).
C40_FailedReadStep ==
    (InReadLoop /\ (pc' # pc \/ remaining' # remaining)) =>
        /\ gateOp' = "readFile"
        /\ (outcome' = "readFault") = (gateThrown' = "CascReadFile")
        /\ gateThrown' = "CascReadFile" => (~ ReadNow.ok /\ BytesNow = 0)
        /\ (~ ReadNow.ok /\ BytesNow >= 1) =>
              /\ gateThrown' = "none"
              /\ gateValue' = BytesNow
              /\ \/ /\ fs'[dest].len = fs[dest].len + BytesNow
                    /\ remaining' = remaining - BytesNow
                    /\ pc' = "stream"
                    /\ exitCode' = exitCode
                 \/ outcome' = "writeFault"

\* C40: readFile raises a fault only when the native read reports failure
\* and 0 bytes were read; a read that fails after transferring bytes counts
\* as a successful read of those bytes in the extraction loop.
C40_FailedReadWithBytesSucceeds == [][C40_FailedReadStep]_vars

\* a native read failed after its bytes were transferred, and the file
\* was settled as extracted with no failure reported
C40_Witness ==
    /\ pc = "done"
    /\ gateOp = "readFile"
    /\ ~ engineLog[1].ok
    /\ gateInfo.written >= 1
    /\ gateInfo.written = fileSize
    /\ outcome = "extracted"
    /\ exitCode = 0

(***************************************************************************)
(* Claims about destinations shared by several entries                     *)
(***************************************************************************)
\* the destination of the i-th entry settled
DestinationOf(i) == sanitizeRelativePath(outcomes[i].path, "/")

\* the entry was streamed to its destination (to the end or not)
WasWritten(i) == outcomes[i].kind \in { "extracted", "incomplete", "readFault", "writeFault" }

\* entries i < j of different paths and one destination, i the first of the
\* batch with that destination and the destination not on disk beforehand
SharedDestination(i, j) ==
    /\ i < j
    /\ outcomes[i].path # outcomes[j].path
    /\ DestinationOf(i) = DestinationOf(j)
    /\ DestinationOf(i) \notin existing
    /\ \A k \in 1..(i - 1) : DestinationOf(k) # DestinationOf(i)

\* C37 as stated: with overwrite=false, of the entries that share a
\* destination the first in aggregation order is written and every later
\* one is reported as skipped.
C37_FirstWrittenLaterSkipped ==
    (cmd = "extract" /\ ~ overwrite) =>
        \A i, j \in 1..Len(outcomes) :
            SharedDestination(i, j) =>
                /\ WasWritten(i)
                /\ outcomes[j].kind = "skipped"

\* C37 (state): with overwrite=false an entry that was written owns its
\* destination, and after an entry was written no later entry with the
\* same destination is written; it is skipped or fails before its
\* destination is opened.
C37_OneWriterState ==
    (cmd = "extract" /\ ~ overwrite) =>
        /\ \A i \in 1..Len(outcomes) :
              WasWritten(i) =>
                 /\ DestinationOf(i) \in DOMAIN fs
                 /\ fs[DestinationOf(i)].owner = i
        /\ \A i, j \in 1..Len(outcomes) :
              (i < j /\ DestinationOf(i) = DestinationOf(j) /\ WasWritten(i)) =>
                 outcomes[j].kind \in { "skipped", "openFault", "sizeFault", "dirFault",
                                        "destError" }

\* C37 (step): with overwrite=false a file on disk stays on disk with its
\* owner, and its bytes change only while its owner is being extracted.
C37_OneWriterStep ==
    (cmd = "extract" /\ ~ overwrite) =>
        \A p \in DOMAIN fs :
            /\ p \in DOMAIN fs'
            /\ fs'[p].owner = fs[p].owner
            /\ fs'[p].len # fs[p].len => (fs[p].owner = idx /\ p = dest)

\* C37: with overwrite=false each destination path is written by at most
\* one entry of a batch: of the entries that share a destination, the first
\* that creates the file is the only one written, every later one is
\* skipped (or fails before its destination is opened) and leaves the bytes
\* unchanged.
C37_OneWriterPerDestination == [] C37_OneWriterState /\ [][C37_OneWriterStep]_vars

\* a:b was extracted, a/b was skipped, and the file holds the bytes of a:b
C37_Witness ==
    /\ pc = "done"
    /\ ~ overwrite
    /\ Len(outcomes) >= 2
    /\ outcomes[1] = [path |-> PathColon, kind |-> "extracted"]
    /\ outcomes[2] = [path |-> PathSlash, kind |-> "skipped"]
    /\ fs[DestinationOf(1)].owner = 1
    /\ fs[DestinationOf(1)].len >= 1
    /\ exitCode = 0

(***************************************************************************)
(* Claims about the entries represented in the tree                        *)
(***************************************************************************)
\* the nodes, file leaf or directory, an entry path stands for in the
\* returned tree: those whose fullPath is the normalized path of the entry,
\* with or without the vfs-root segment
NodesOf(path) ==
    { node \in TreeNodes(tree) :
        \/ node.fullPath = NormalizedEntryPath(path)
        \/ node.fullPath = RebasedPath(NormalizedEntryPath(path), VfsRoot) }

\* C39: every input entry that is not a pseudo entry is represented in the
\* returned tree, as a file leaf or as a directory node whose fullPath is
\* the normalized path of the entry; no such entry is absent.
C39_EveryEntryRepresented ==
    treePc = "built" =>
        \A i \in 1..Len(treeEntries) :
            ~ IsPseudoEntry(treeEntries[i].path) => NodesOf(treeEntries[i].path) # {}

====
